---- MODULE Spec2Model ----
(***************************************************************************)
(* Ingestion pipeline of the PPV system health monitor:                    *)
(*   backend/app/api/upload.py        XLSXProcessor, upload_campaigns      *)
(*   backend/app/services/*.py        DataConverter, RuntimeParser         *)
(*   backend/app/models/*.py          Campaign, UploadSession              *)
(*                                                                         *)
(* Strings are sequences of one-character strings, so that strip, split,   *)
(* isdigit and the regular expressions are computed as the code computes   *)
(* them.  Python's None is the record NoneCell.                            *)
(*                                                                         *)
(* has_parse_runtime.  upload.py:221 calls                                 *)
(* self.runtime_parser.parse_runtime(...), but class RuntimeParser         *)
(* (runtime_parser.py:48-289) defines no such attribute: parse_runtime is  *)
(* a function of the module (line 292).  With has_parse_runtime = FALSE    *)
(* the class is as written and the call raises AttributeError; with TRUE   *)
(* the attribute is bound to the module's function, which is how the       *)
(* repository's tests run the processor (patch.object on parse_runtime).   *)
(* Both are initial states.                                                *)
(*                                                                         *)
(* running.  upload_campaigns is a coroutine with one await (upload.py:290)*)
(* served by one event loop, so two requests interleave only there:        *)
(* running names the request that holds the loop, "none" when it is free.  *)
(*                                                                         *)
(* faults.  db.commit() and db.refresh() may raise OperationalError; the   *)
(* model draws that outcome at most MaxFaults times.  A failed commit      *)
(* rolls the transaction back: a pending object is expunged, a persistent  *)
(* one reverts to its stored row.                                          *)
(*                                                                         *)
(* call.  CampaignClassifier.classify and the converters of DataConverter  *)
(* are also called on their own (ServiceSpec), on None and on strings the  *)
(* worksheets above do not carry; call holds the call in progress.         *)
(*                                                                         *)
(* process_row_table and CampaignInit_table tabulate _process_row and      *)
(* Campaign.__init__ over the rows of the catalogue.                       *)
(***************************************************************************)
EXTENDS Integers, Sequences, FiniteSets, TLC

(***************************************************************************)
(* Bounds of the model                                                     *)
(***************************************************************************)
\* data rows per uploaded worksheet
MaxRows == 2
\* storage faults (OperationalError on commit) per run of the model
MaxFaults == 2

(***************************************************************************)
(* Strings                                                                 *)
(***************************************************************************)
DigitChars == <<"0", "1", "2", "3", "4", "5", "6", "7", "8", "9">>

IsDigit(c) == \E i \in 1..10 : DigitChars[i] = c

DigitVal(c) == (CHOOSE i \in 1..10 : DigitChars[i] = c) - 1

\* str.isdigit(): non-empty and every character a digit
IsDigitStr(s) == Len(s) > 0 /\ \A i \in 1..Len(s) : IsDigit(s[i])

Count(s, c) == Cardinality({i \in 1..Len(s) : s[i] = c})

Contains(s, c) == \E i \in 1..Len(s) : s[i] = c

RECURSIVE LStrip(_)
LStrip(s) == IF s # <<>> /\ Head(s) = " " THEN LStrip(Tail(s)) ELSE s

RECURSIVE RStrip(_)
RStrip(s) == IF s # <<>> /\ s[Len(s)] = " " THEN RStrip(SubSeq(s, 1, Len(s) - 1)) ELSE s

\* str.strip()
Strip(s) == RStrip(LStrip(s))

\* s.replace(c, '')
Remove(s, c) == SelectSeq(s, LAMBDA x : x # c)

\* index of the first occurrence of c in s, 0 when absent
FirstIndex(s, c) == IF Contains(s, c) THEN CHOOSE i \in 1..Len(s) : s[i] = c /\ \A j \in 1..(i - 1) : s[j] # c ELSE 0

\* s.split(c): the parts between the occurrences of c
RECURSIVE Split(_, _)
Split(s, c) == IF ~Contains(s, c) THEN <<s>> ELSE <<SubSeq(s, 1, FirstIndex(s, c) - 1)>> \o Split(SubSeq(s, FirstIndex(s, c) + 1, Len(s)), c)

\* s.startswith(p)
StartsWith(s, p) == Len(s) >= Len(p) /\ SubSeq(s, 1, Len(p)) = p

\* value of a digit string, saturating just above the largest value the code compares with
IntCap == 2000000001

RECURSIVE IntAcc(_, _)
IntAcc(s, acc) == IF s = <<>> THEN acc ELSE IntAcc(Tail(s), IF acc > 200000000 THEN IntCap ELSE IF acc * 10 + DigitVal(Head(s)) > IntCap THEN IntCap ELSE acc * 10 + DigitVal(Head(s)))

\* int(s) for a digit string
IntOfDigits(s) == IntAcc(s, 0)

(***************************************************************************)
(* Results of calls that may raise                                         *)
(***************************************************************************)
Ok(v) == [ok |-> TRUE, val |-> v]

Raise(e, m) == [ok |-> FALSE, exc |-> e, msg |-> m]

(***************************************************************************)
(* float(): a decimal literal is an optional sign, digits, at most one dot *)
(* and at least one digit.  The value is mant / 10^scale.                  *)
(***************************************************************************)
Unsigned(s) == IF s # <<>> /\ Head(s) \in {"-", "+"} THEN Tail(s) ELSE s

IsFloatLiteral(s) == /\ Count(Unsigned(s), ".") <= 1
                     /\ IsDigitStr(Remove(Unsigned(s), "."))

FloatOf(s) == LET u == Unsigned(s)
                  m == IntOfDigits(Remove(u, "."))
                  sc == IF Contains(u, ".") THEN Len(u) - FirstIndex(u, ".") ELSE 0
              IN [mant |-> IF s # <<>> /\ Head(s) = "-" THEN 0 - m ELSE m, scale |-> sc]

\* float(cleaned) with the ValueError of the call sites rewrapped as DataValidationError
ToFloat(s) == IF IsFloatLiteral(s) THEN Ok(FloatOf(s)) ELSE Raise("DataValidationError", <<"Cannot convert to decimal">>)

RECURSIVE Pow10(_)
Pow10(n) == IF n = 0 THEN 1 ELSE 10 * Pow10(n - 1)

\* comparison of two float values
FloatLess(a, b) == a.mant * Pow10(b.scale) < b.mant * Pow10(a.scale)

FloatEq(a, b) == a.mant * Pow10(b.scale) = b.mant * Pow10(a.scale)

FloatPositive(a) == a.mant > 0

(***************************************************************************)
(* DataConverter (services/data_conversion.py)                             *)
(***************************************************************************)
MIN_IMPRESSION_GOAL == 1

MAX_IMPRESSION_GOAL == 2000000000

\* variant: a value outside the range is refused as a format error
convert_impression_goal_one_category(value_string) ==
    LET cleaned == Strip(value_string) IN
    IF cleaned = <<>> THEN Raise("DataValidationError", <<"Impression goal cannot be empty">>)
    ELSE IF ~IsDigitStr(cleaned) THEN Raise("DataValidationError", <<"Impression goal must be integer value">>)
    ELSE IF IntOfDigits(cleaned) < MIN_IMPRESSION_GOAL THEN Raise("DataValidationError", <<"Impression goal must be at least">>)
    ELSE IF IntOfDigits(cleaned) > MAX_IMPRESSION_GOAL THEN Raise("DataValidationError", <<"Impression goal cannot exceed">>)
    ELSE Ok(IntOfDigits(cleaned))

convert_impression_goal(value_string) ==
    LET cleaned == Strip(value_string) IN
    IF cleaned = <<>> THEN Raise("DataValidationError", <<"Impression goal cannot be empty">>)
    ELSE IF ~IsDigitStr(cleaned) THEN Raise("DataValidationError", <<"Impression goal must be integer value">>)
    ELSE IF IntOfDigits(cleaned) < MIN_IMPRESSION_GOAL THEN Raise("BusinessRuleError", <<"Impression goal must be at least">>)
    ELSE IF IntOfDigits(cleaned) > MAX_IMPRESSION_GOAL THEN Raise("BusinessRuleError", <<"Impression goal cannot exceed">>)
    ELSE Ok(IntOfDigits(cleaned))

\* _convert_european_format: comma is the decimal separator, dots are thousands separators
convert_european_format(value_string) ==
    IF Contains(value_string, ",")
    THEN LET parts == Split(value_string, ",") IN
         IF Len(parts) # 2 THEN Raise("DataValidationError", <<"Invalid European decimal format", "multiple commas">>)
         ELSE IF ~IsDigitStr(parts[2]) THEN Raise("DataValidationError", <<"Invalid decimal part">>)
         ELSE ToFloat(Remove(parts[1], ".") \o <<".">> \o parts[2])
    ELSE ToFloat(Remove(value_string, "."))

\* variant: a comma together with exactly one dot is refused
convert_european_decimal_strict(value_string) ==
    LET cleaned == Strip(value_string) IN
    IF cleaned = <<>> THEN Raise("DataValidationError", <<"Input cannot be empty string">>)
    ELSE IF Contains(cleaned, ",") /\ Count(cleaned, ".") > 1 THEN convert_european_format(cleaned)
    ELSE IF Contains(cleaned, ",") /\ ~Contains(cleaned, ".") THEN convert_european_format(cleaned)
    ELSE IF ~Contains(cleaned, ",") /\ Contains(cleaned, ".") THEN ToFloat(cleaned)
    ELSE IF ~Contains(cleaned, ",") /\ ~Contains(cleaned, ".") THEN ToFloat(cleaned)
    ELSE Raise("DataValidationError", <<"Invalid European decimal format">>)

convert_european_decimal(value_string) ==
    LET cleaned == Strip(value_string) IN
    IF cleaned = <<>> THEN Raise("DataValidationError", <<"Input cannot be empty string">>)
    ELSE IF Contains(cleaned, ",") /\ Count(cleaned, ".") > 1 THEN convert_european_format(cleaned)
    ELSE IF Contains(cleaned, ",") /\ ~Contains(cleaned, ".") THEN convert_european_format(cleaned)
    ELSE IF ~Contains(cleaned, ",") /\ Contains(cleaned, ".") THEN ToFloat(cleaned)
    ELSE IF ~Contains(cleaned, ",") /\ ~Contains(cleaned, ".") THEN ToFloat(cleaned)
    ELSE convert_european_format(cleaned)

(***************************************************************************)
(* Dates: <<year, month, day>>; NoDate is Python's None                    *)
(***************************************************************************)
NoDate == <<0, 0, 0>>

IsLeap(y) == (y % 4 = 0 /\ y % 100 # 0) \/ y % 400 = 0

DaysInMonth(y, m) == IF m = 2 THEN (IF IsLeap(y) THEN 29 ELSE 28) ELSE IF m \in {4, 6, 9, 11} THEN 30 ELSE 31

\* datetime.date(year, month, day) accepts exactly the calendar dates of the years 1..9999
ValidDate(y, m, d) == /\ y >= 1 /\ y <= 9999
                      /\ m >= 1 /\ m <= 12
                      /\ d >= 1 /\ d <= DaysInMonth(y, m)

DateLess(a, b) == \/ a[1] < b[1]
                  \/ a[1] = b[1] /\ a[2] < b[2]
                  \/ a[1] = b[1] /\ a[2] = b[2] /\ a[3] < b[3]

\* date.today(): the reference date of the run
Today == <<2025, 7, 1>>

(***************************************************************************)
(* RuntimeParser (services/runtime_parser.py)                              *)
(***************************************************************************)
\* \d{2}\.\d{2}\.\d{4} at positions p .. p+9 of s
DateShapeAt(s, p) == /\ Len(s) >= p + 9
                     /\ \A i \in {0, 1, 3, 4, 6, 7, 8, 9} : IsDigit(s[p + i])
                     /\ s[p + 2] = "." /\ s[p + 5] = "."

DateFieldsAt(s, p) == <<IntOfDigits(SubSeq(s, p + 6, p + 9)), IntOfDigits(SubSeq(s, p + 3, p + 4)), IntOfDigits(SubSeq(s, p, p + 1))>>

ASAP_PATTERN(s) == Len(s) = 15 /\ SubSeq(s, 1, 5) = <<"A", "S", "A", "P", "-">> /\ DateShapeAt(s, 6)

STANDARD_PATTERN(s) == Len(s) = 21 /\ DateShapeAt(s, 1) /\ s[11] = "-" /\ DateShapeAt(s, 12)

create_date(f) == IF ValidDate(f[1], f[2], f[3]) THEN Ok(f) ELSE Raise("ValueError", <<"Invalid date">>)

ParseResult(start, end, today) == [start_date |-> start, end_date |-> end, is_running |-> ~DateLess(end, today)]

\* variant: an ASAP runtime starts on the current date
parse_asap_format_from_today(s, today) ==
    IF ~create_date(DateFieldsAt(s, 6)).ok THEN Raise("RuntimeParsingError", <<"Invalid end date in ASAP format">>)
    ELSE Ok(ParseResult(today, DateFieldsAt(s, 6), today))

parse_asap_format(s, today) ==
    IF ~create_date(DateFieldsAt(s, 6)).ok THEN Raise("RuntimeParsingError", <<"Invalid end date in ASAP format">>)
    ELSE Ok(ParseResult(NoDate, DateFieldsAt(s, 6), today))

\* variant: only an end date before the start date is refused
parse_standard_format_allows_equal(s, today) ==
    LET start == DateFieldsAt(s, 1)
        end == DateFieldsAt(s, 12) IN
    IF ~create_date(start).ok \/ ~create_date(end).ok THEN Raise("RuntimeParsingError", <<"Invalid date in standard format">>)
    ELSE IF DateLess(end, start) THEN Raise("BusinessRuleError", <<"End date must be after start date">>)
    ELSE Ok(ParseResult(start, end, today))

parse_standard_format(s, today) ==
    LET start == DateFieldsAt(s, 1)
        end == DateFieldsAt(s, 12) IN
    IF ~create_date(start).ok \/ ~create_date(end).ok THEN Raise("RuntimeParsingError", <<"Invalid date in standard format">>)
    ELSE IF ~DateLess(start, end) THEN Raise("BusinessRuleError", <<"End date must be after start date">>)
    ELSE Ok(ParseResult(start, end, today))

\* RuntimeParser.parse
parse(runtime_string, today) ==
    LET cleaned_runtime == Strip(runtime_string) IN
    IF cleaned_runtime = <<>> THEN Raise("RuntimeParsingError", <<"Runtime string cannot be empty">>)
    ELSE IF ASAP_PATTERN(cleaned_runtime) THEN parse_asap_format(cleaned_runtime, today)
    ELSE IF STANDARD_PATTERN(cleaned_runtime) THEN parse_standard_format(cleaned_runtime, today)
    ELSE Raise("RuntimeParsingError", <<"Invalid runtime format", "ASAP-DD.MM.YYYY", "DD.MM.YYYY-DD.MM.YYYY">>)

\* date.toordinal(): the number of the day, the first of January of the year 1 being day 1
RECURSIVE DaysBeforeMonth(_, _)
DaysBeforeMonth(y, m) == IF m <= 1 THEN 0 ELSE DaysBeforeMonth(y, m - 1) + DaysInMonth(y, m - 1)

toordinal(d) == 365 * (d[1] - 1) + ((d[1] - 1) \div 4) - ((d[1] - 1) \div 100) + ((d[1] - 1) \div 400) + DaysBeforeMonth(d[1], d[2]) + d[3]

\* the classes named by "except (RuntimeParseError, ValueError)" in this module: RuntimeParseError
\* is the class defined at line 27, a subclass of Exception only
CaughtByHelpers == {"RuntimeParseError", "ValueError"}

\* RuntimeParser.is_campaign_completed
is_campaign_completed(runtime_string, current_date) ==
    LET result == parse(runtime_string, current_date) IN
    IF result.ok THEN Ok(~result.val.is_running)
    ELSE IF result.exc \in CaughtByHelpers THEN Ok(FALSE)
    ELSE result

\* RuntimeParser.get_campaign_duration_days; None is the value -1
get_campaign_duration_days(runtime_string) ==
    LET result == parse(runtime_string, Today) IN
    IF result.ok THEN (IF result.val.start_date = NoDate THEN Ok(0 - 1)
                       ELSE Ok(toordinal(result.val.end_date) - toordinal(result.val.start_date) + 1))
    ELSE IF result.exc \in CaughtByHelpers THEN Ok(0 - 1)
    ELSE result

\* the module-level function parse_runtime: parse(), then ParseResult.to_dict()
parse_runtime(runtime_string) == parse(runtime_string, Today)

(***************************************************************************)
(* UUIDValidationMixin, CampaignBusinessRuleMixin (models/base.py)         *)
(***************************************************************************)
HexLower == <<"a", "b", "c", "d", "e", "f">>

HexUpper == <<"A", "B", "C", "D", "E", "F">>

IsHex(c) == IsDigit(c) \/ \E i \in 1..6 : HexLower[i] = c \/ HexUpper[i] = c

Lower(c) == IF \E i \in 1..6 : HexUpper[i] = c THEN HexLower[CHOOSE i \in 1..6 : HexUpper[i] = c] ELSE c

\* number of hexadecimal digits of a UUID
UUIDHexLen == 32

\* str(uuid.UUID): lower-case digits in the groups 8-4-4-4-12
Hyphenate(h) == SubSeq(h, 1, 8) \o <<"-">> \o SubSeq(h, 9, 12) \o <<"-">> \o SubSeq(h, 13, 16) \o <<"-">> \o SubSeq(h, 17, 20) \o <<"-">> \o SubSeq(h, 21, 32)

RECURSIVE StripBraces(_)
StripBraces(s) == IF s # <<>> /\ Head(s) \in {"{", "}"} THEN StripBraces(Tail(s))
                  ELSE IF s # <<>> /\ s[Len(s)] \in {"{", "}"} THEN StripBraces(SubSeq(s, 1, Len(s) - 1))
                  ELSE s

\* uuid.UUID(s): braces and hyphens are dropped, 32 hexadecimal digits must remain
UUIDHex(s) == Remove(StripBraces(s), "-")

validate_uuid(uuid_string) ==
    IF uuid_string = <<>> THEN Raise("ValueError", <<"UUID cannot be empty">>)
    ELSE IF Len(UUIDHex(uuid_string)) # UUIDHexLen \/ \E i \in 1..Len(UUIDHex(uuid_string)) : ~IsHex(UUIDHex(uuid_string)[i])
         THEN Raise("ValueError", <<"Invalid UUID format">>)
    ELSE Ok(Hyphenate([i \in 1..UUIDHexLen |-> Lower(UUIDHex(uuid_string)[i])]))

validate_impression_goal_range(impression_goal) ==
    IF impression_goal < MIN_IMPRESSION_GOAL THEN Raise("ValueError", <<"Impression goal must be at least">>)
    ELSE IF impression_goal > MAX_IMPRESSION_GOAL THEN Raise("ValueError", <<"Impression goal cannot exceed">>)
    ELSE Ok(impression_goal)

validate_positive_value(field_name, value) ==
    IF ~FloatPositive(value) THEN Raise("ValueError", <<field_name, "must be positive">>) ELSE Ok(value)

validate_date_logic(start_date, end_date) ==
    IF end_date = NoDate THEN Raise("ValueError", <<"End date is required">>)
    ELSE IF start_date # NoDate /\ DateLess(end_date, start_date) THEN Raise("ValueError", <<"Start date cannot be after end date">>)
    ELSE Ok(TRUE)

(***************************************************************************)
(* Campaign (models/campaign.py)                                           *)
(***************************************************************************)
\* int(s) of the date parts: surrounding blanks allowed, digits required
IsIntLiteral(s) == IsDigitStr(Strip(s))

\* Campaign._parse_german_date: DD.MM.YYYY, any number of digits per part
parse_german_date(date_str) ==
    LET parts == Split(Strip(date_str), ".") IN
    IF Len(parts) # 3 \/ \E i \in 1..Len(parts) : ~IsIntLiteral(parts[i]) THEN Raise("ValueError", <<"Invalid German date format">>)
    ELSE IF ~ValidDate(IntOfDigits(Strip(parts[3])), IntOfDigits(Strip(parts[2])), IntOfDigits(Strip(parts[1]))) THEN Raise("ValueError", <<"Invalid German date format">>)
    ELSE Ok(<<IntOfDigits(Strip(parts[3])), IntOfDigits(Strip(parts[2])), IntOfDigits(Strip(parts[1]))>>)

ASAPPrefix == <<"A", "S", "A", "P", "-">>

\* Campaign._parse_and_set_runtime_dates: the pair <<runtime_start, runtime_end>>
parse_and_set_runtime_dates(runtime_text) ==
    LET dash == FirstIndex(runtime_text, "-")
        asap == parse_german_date(SubSeq(runtime_text, 6, Len(runtime_text)))
        first == parse_german_date(SubSeq(runtime_text, 1, dash - 1))
        second == parse_german_date(SubSeq(runtime_text, dash + 1, Len(runtime_text))) IN
    IF StartsWith(runtime_text, ASAPPrefix)
    THEN (IF ~asap.ok THEN Raise("ValueError", <<"Error parsing runtime">>) ELSE Ok(<<NoDate, asap.val>>))
    ELSE IF dash # 0 /\ ~StartsWith(runtime_text, <<"A", "S", "A", "P">>)
    THEN (IF ~first.ok \/ ~second.ok THEN Raise("ValueError", <<"Error parsing runtime">>)
          ELSE IF ~validate_date_logic(first.val, second.val).ok THEN Raise("ValueError", <<"Error parsing runtime">>)
          ELSE Ok(<<first.val, second.val>>))
    ELSE Raise("ValueError", <<"Error parsing runtime">>)

\* Campaign._calculate_is_running: runtime_end strictly after today
calculate_is_running(runtime_end) == DateLess(Today, runtime_end)

\* Campaign.__init__(**kwargs) for the keys upload_campaigns passes; "cmp_eur" is never one of them
CampaignInit(kwargs) ==
    LET dates == parse_and_set_runtime_dates(kwargs.runtime) IN
    IF ~validate_uuid(kwargs.id).ok THEN validate_uuid(kwargs.id)
    ELSE IF ~validate_impression_goal_range(kwargs.impression_goal).ok THEN validate_impression_goal_range(kwargs.impression_goal)
    ELSE IF ~validate_positive_value("Budget", kwargs.budget_eur).ok THEN validate_positive_value("Budget", kwargs.budget_eur)
    ELSE IF Strip(kwargs.name) = <<>> THEN Raise("ValueError", <<"Campaign name cannot be empty">>)
    ELSE IF Strip(kwargs.runtime) = <<>> THEN Raise("ValueError", <<"Runtime cannot be empty">>)
    ELSE IF ~dates.ok THEN dates
    ELSE Ok([id |-> validate_uuid(kwargs.id).val,
             name |-> kwargs.name,
             runtime |-> kwargs.runtime,
             impression_goal |-> kwargs.impression_goal,
             budget_eur |-> kwargs.budget_eur,
             cpm_eur |-> kwargs.cpm_eur,
             buyer |-> kwargs.buyer,
             runtime_start |-> dates.val[1],
             runtime_end |-> dates.val[2],
             is_running |-> calculate_is_running(dates.val[2])])

\* CampaignDataValidator.validate_uuid: a blank string is "empty", every other one goes to UUID()
validator_validate_uuid(uuid_string) ==
    IF Strip(uuid_string) = <<>> THEN Raise("ValueError", <<"UUID cannot be empty">>)
    ELSE validate_uuid(uuid_string)

\* CampaignDataValidator.validate_positive_number
validate_positive_number(value, field_name) ==
    IF ~FloatPositive(value) THEN Raise("ValueError", <<field_name, "must be positive">>) ELSE Ok(value)

\* RefactoredCampaignConstructor.refactored_init(campaign_instance, **kwargs) for the same keys:
\* the id, the budget and the unit cost are validated first, then the impression goal and the
\* name; the runtime is read by RuntimeParser.parse and every error of it rewrapped
refactored_init(kwargs) ==
    LET parse_result == parse(kwargs.runtime, Today) IN
    IF ~validator_validate_uuid(kwargs.id).ok THEN validator_validate_uuid(kwargs.id)
    ELSE IF ~validate_positive_number(kwargs.budget_eur, "Budget").ok THEN validate_positive_number(kwargs.budget_eur, "Budget")
    ELSE IF ~validate_positive_number(kwargs.cpm_eur, "CPM").ok THEN validate_positive_number(kwargs.cpm_eur, "CPM")
    ELSE IF ~validate_impression_goal_range(kwargs.impression_goal).ok THEN validate_impression_goal_range(kwargs.impression_goal)
    ELSE IF Strip(kwargs.name) = <<>> THEN Raise("ValueError", <<"Campaign name cannot be empty">>)
    ELSE IF Strip(kwargs.runtime) = <<>> THEN Raise("ValueError", <<"Runtime cannot be empty">>)
    ELSE IF ~parse_result.ok THEN Raise("ValueError", <<"Error parsing runtime">>)
    ELSE IF ~validate_date_logic(parse_result.val.start_date, parse_result.val.end_date).ok THEN Raise("ValueError", <<"Error parsing runtime">>)
    ELSE Ok([id |-> validator_validate_uuid(kwargs.id).val,
             name |-> kwargs.name,
             runtime |-> kwargs.runtime,
             impression_goal |-> kwargs.impression_goal,
             budget_eur |-> kwargs.budget_eur,
             cpm_eur |-> kwargs.cpm_eur,
             buyer |-> kwargs.buyer,
             runtime_start |-> parse_result.val.start_date,
             runtime_end |-> parse_result.val.end_date,
             is_running |-> calculate_is_running(parse_result.val.end_date)])

\* Campaign.entity_type: "campaign" for the buyer "Not set", "deal" for every other buyer
entity_type(buyer) == IF buyer = <<"N", "o", "t", " ", "s", "e", "t">> THEN "campaign" ELSE "deal"

(***************************************************************************)
(* Worksheets: a cell is None or a string; a row has one cell per column   *)
(***************************************************************************)
NoneCell == [none |-> TRUE, s |-> <<>>]

Str(s) == [none |-> FALSE, s |-> s]

\* truth value of a cell: None and the empty string are false
Truthy(cell) == ~cell.none /\ cell.s # <<>>

\* the columns of the worksheet, left to right, under the field names _extract_headers gives them
required_fields == <<"id", "name", "runtime", "impression_goal", "budget_eur", "cpm_eur", "buyer">>

AllFields == {required_fields[i] : i \in 1..Len(required_fields)}

IdA == Hyphenate([i \in 1..32 |-> "a"])

IdB == Hyphenate([i \in 1..32 |-> "b"])

TxtX == <<"X">>

TxtNotSet == <<"N", "o", "t", " ", "s", "e", "t">>

TxtAsap == <<"A", "S", "A", "P", "-", "3", "1", ".", "1", "2", ".", "2", "0", "2", "5">>

TxtRange == <<"0", "7", ".", "0", "7", ".", "2", "0", "2", "5", "-", "2", "4", ".", "0", "7", ".", "2", "0", "2", "5">>

TxtGoal == <<"5", "0", "0">>

TxtGoalDotted == <<"1", ".", "0", "0", "0">>

TxtZero == <<"0">>

TxtBudget == <<"1", ".", "5", "0", "0", ",", "7", "5">>

TxtCpm == <<"3", ",", "2", "5">>

TxtNegative == <<"-", "5">>

RowGoodA == [id |-> Str(IdA), name |-> Str(TxtX), runtime |-> Str(TxtAsap), impression_goal |-> Str(TxtGoal), budget_eur |-> Str(TxtBudget), cpm_eur |-> Str(TxtCpm), buyer |-> Str(TxtNotSet)]

RowGoodB == [RowGoodA EXCEPT !.id = Str(IdB), !.runtime = Str(TxtRange), !.buyer = Str(TxtX)]

RowBlank == [f \in AllFields |-> NoneCell]

RowMissingBuyer == [RowGoodB EXCEPT !.buyer = NoneCell]

RowGoalDotted == [RowGoodB EXCEPT !.impression_goal = Str(TxtGoalDotted)]

RowGoalZero == [RowGoodB EXCEPT !.impression_goal = Str(TxtZero)]

RowBudgetNegative == [RowGoodB EXCEPT !.budget_eur = Str(TxtNegative)]

\* the row of the end-to-end scenario: a one-letter id and an impression goal with a thousands separator
IdShort == <<"A">>

TxtGoalThousands == <<"5", "0", "0", ".", "0", "0", "0">>

RowScenario == [RowGoodA EXCEPT !.id = Str(IdShort), !.impression_goal = Str(TxtGoalThousands)]

\* a unit cost that is not positive
RowCpmNegative == [RowGoodB EXCEPT !.cpm_eur = Str(TxtNegative)]

\* a UUID written in capitals
IdUpper == Hyphenate([i \in 1..32 |-> "A"])

RowIdUpper == [RowGoodB EXCEPT !.id = Str(IdUpper)]

\* the buyer "Not set" with a blank on either side
RowBuyerPadded == [RowGoodA EXCEPT !.buyer = Str(<<" ">> \o TxtNotSet \o <<" ">>)]

\* the rows of the one-row worksheets
RowExamples == {RowScenario, RowCpmNegative, RowIdUpper, RowBuyerPadded}

\* the rows a worksheet is made of
RowCatalogue == {RowGoodA, RowGoodB, RowBlank, RowMissingBuyer, RowGoalDotted, RowGoalZero, RowBudgetNegative}

RECURSIVE SeqsUpTo(_, _)
SeqsUpTo(S, n) == IF n = 0 THEN {<<>>} ELSE SeqsUpTo(S, n - 1) \cup {Append(q, x) : q \in {p \in SeqsUpTo(S, n - 1) : Len(p) = n - 1}, x \in S}

\* the header maps _extract_headers can return: every column recognised, or the buyer column not
HeaderMaps == {AllFields, AllFields \ {"buyer"}}

(***************************************************************************)
(* XLSXProcessor._process_row (api/upload.py)                              *)
(***************************************************************************)
\* the exception classes the clause at the end of _process_row catches
CaughtInRow == {"ConversionError", "RuntimeParseError", "ValueError"}

\* variant: only the cells under a recognised header are looked at
missing_fields_of_mapped(row, headers) == SelectSeq(required_fields, LAMBDA f : f \in headers /\ row[f].none)

missing_fields(row, headers) == SelectSeq(required_fields, LAMBDA f : f \notin headers \/ row[f].none)

\* self.runtime_parser.parse_runtime(runtime_str): the attribute lookup on the RuntimeParser instance
call_parse_runtime(runtime_str, bound) ==
    IF bound THEN parse_runtime(runtime_str) ELSE Raise("AttributeError", <<"RuntimeParser", "parse_runtime">>)

\* the statements of the try block, in order; the first one that raises decides
row_conversion(row, bound) ==
    LET goal == convert_impression_goal(row.impression_goal.s)
        budget == convert_european_decimal(row.budget_eur.s)
        cpm == convert_european_decimal(row.cpm_eur.s)
        runtime_result == call_parse_runtime(Strip(row.runtime.s), bound) IN
    IF ~goal.ok THEN goal
    ELSE IF ~budget.ok THEN budget
    ELSE IF ~cpm.ok THEN cpm
    ELSE IF ~runtime_result.ok THEN runtime_result
    ELSE Ok([id |-> Strip(row.id.s),
             name |-> Strip(row.name.s),
             buyer |-> Strip(row.buyer.s),
             impression_goal |-> goal.val,
             budget_eur |-> budget.val,
             cpm_eur |-> cpm.val,
             runtime |-> Strip(row.runtime.s),
             runtime_start |-> runtime_result.val.start_date,
             runtime_end |-> runtime_result.val.end_date])

\* _process_row: None for a blank row, the campaign data, or the exception that leaves it
process_row(row, headers, bound) ==
    LET conv == row_conversion(row, bound) IN
    IF ~\E f \in AllFields : Truthy(row[f]) THEN [kind |-> "none"]
    ELSE IF missing_fields(row, headers) # <<>> THEN [kind |-> "raise", exc |-> "ValueError", msg |-> <<"Missing required fields">> \o missing_fields(row, headers)]
    ELSE IF conv.ok THEN [kind |-> "ok", data |-> conv.val]
    ELSE IF conv.exc \in CaughtInRow THEN [kind |-> "raise", exc |-> "ValueError", msg |-> <<"Data conversion failed">> \o conv.msg]
    ELSE [kind |-> "raise", exc |-> conv.exc, msg |-> conv.msg]

\* the classes derived from Exception that a row can raise
ExceptionClasses == {"ValueError", "TypeError", "AttributeError", "DataValidationError", "RuntimeParsingError", "BusinessRuleError", "ConversionError", "RuntimeParseError"}

\* variant: the loop catches only the classes _process_row declares
row_loop_catches_declared(exc) == exc \in CaughtInRow

\* "except Exception" around one row of the loop (line 105)
row_loop_catches(exc) == exc \in ExceptionClasses

\* [str(cell) for cell in row if cell is not None][:5]
row_sample(row) ==
    LET present == SelectSeq(required_fields, LAMBDA f : ~row[f].none) IN
    [i \in 1..(IF Len(present) < 5 THEN Len(present) ELSE 5) |-> row[present[i]].s]

(***************************************************************************)
(* UploadSession (models/campaign.py)                                      *)
(***************************************************************************)
\* None in a nullable integer or timestamp column
NoneInt == -1

\* validation_errors: NULL, the text json.dumps made of a list, or a plain message
NullErrors == [kind |-> "null", list |-> <<>>, text |-> ""]

JsonErrors(l) == [kind |-> "json", list |-> l, text |-> ""]

TextErrors(t) == [kind |-> "text", list |-> <<>>, text |-> t]

\* UploadSession(filename=..., file_size=...): nothing but the metadata is set
NewUploadSession == [status |-> "unset",
                     processing_started_at |-> NoneInt,
                     processing_completed_at |-> NoneInt,
                     total_rows_processed |-> NoneInt,
                     successful_campaigns |-> NoneInt,
                     failed_campaigns |-> NoneInt,
                     validation_errors |-> NullErrors]

\* variant: the session is stored as it was constructed
mark_processing_not_started(s, now) == s

mark_processing_started(s, now) == [s EXCEPT !.status = "processing", !.processing_started_at = now]

mark_completed(s, now, successful, failed, total) ==
    [s EXCEPT !.status = "completed",
              !.processing_completed_at = now,
              !.successful_campaigns = successful,
              !.failed_campaigns = failed,
              !.total_rows_processed = total]

\* variant: the status is left as it was
mark_failed_keeps_status(s, now, error_message) ==
    [s EXCEPT !.processing_completed_at = now, !.validation_errors = TextErrors(error_message)]

mark_failed(s, now, error_message) ==
    [s EXCEPT !.status = "failed", !.processing_completed_at = now, !.validation_errors = TextErrors(error_message)]

\* no row of upload_sessions for the batch
NoSession == [NewUploadSession EXCEPT !.status = "absent"]

(***************************************************************************)
(* upload_campaigns (api/upload.py): one request per batch                 *)
(***************************************************************************)
Batches == {"b1", "b2"}

VARIABLES call, has_parse_runtime, counter_lock, error_counter, thread, exceptions, running, db_campaigns, db_sessions, faults, file, pc, upload_session, row_number, campaigns, errors, summary, next_campaign, campaign_ids, persistence_errors, raised, response, txlog, clock

vars == <<call, has_parse_runtime, counter_lock, error_counter, thread, exceptions, running, db_campaigns, db_sessions, faults, file, pc, upload_session, row_number, campaigns, errors, summary, next_campaign, campaign_ids, persistence_errors, raised, response, txlog, clock>>

\* the body of a response and, for an HTTPException, its X-Processing-Errors header
NoResponse == [code |-> 0, kind |-> "none", processed_count |-> 0, failed_count |-> 0, campaign_ids |-> <<>>, errors |-> <<>>, total_errors |-> 0, x_processing_errors |-> NoneInt]

\* processing_result before process_xlsx_file has returned
NoSummary == [total_rows |-> NoneInt, successful_campaigns |-> NoneInt, failed_campaigns |-> NoneInt, success_rate |-> <<0, 1>>]

NoRaise == [code |-> 0, detail |-> "", x_processing_errors |-> NoneInt]

\* the worksheets a request can carry; the second request uploads the worksheet of the first again
Files == [headers : {AllFields}, rows : SeqsUpTo(RowCatalogue, MaxRows)] \cup [headers : HeaderMaps, rows : {<<RowGoodA, RowGoodB>>}] \cup [headers : {AllFields}, rows : {<<row>> : row \in RowExamples}]

\* the classes of app/exceptions.py that generate error codes, each with its own class-level counter
PPVExceptions == {"PPVBaseException", "DataValidationError", "RuntimeParsingError", "BusinessRuleError"}

\* the threads that construct exceptions
Threads == {"t1", "t2"}

\* a thread that is not inside a constructor
IdleThread == [at |-> "idle", cls |-> "none", loaded |-> 0, code |-> <<>>]

\* no call of a service outside the pipeline is in progress
NoCall == [op |-> "none"]

Init == /\ call = NoCall
        /\ has_parse_runtime \in BOOLEAN
        /\ counter_lock = "none"
        /\ error_counter = [cls \in PPVExceptions |-> 0]
        /\ thread = [t \in Threads |-> IdleThread]
        /\ exceptions = [t \in Threads |-> <<>>]
        /\ running = "none"
        /\ db_campaigns = {}
        /\ db_sessions = [b \in Batches |-> NoSession]
        /\ faults = 0
        /\ \E f \in Files : file = [b \in Batches |-> f]
        /\ pc = [b \in Batches |-> "start"]
        /\ upload_session = [b \in Batches |-> NewUploadSession]
        /\ row_number = [b \in Batches |-> 1]
        /\ campaigns = [b \in Batches |-> <<>>]
        /\ errors = [b \in Batches |-> <<>>]
        /\ summary = [b \in Batches |-> NoSummary]
        /\ next_campaign = [b \in Batches |-> 1]
        /\ campaign_ids = [b \in Batches |-> <<>>]
        /\ persistence_errors = [b \in Batches |-> <<>>]
        /\ raised = [b \in Batches |-> NoRaise]
        /\ response = [b \in Batches |-> NoResponse]
        /\ txlog = [b \in Batches |-> <<>>]
        /\ clock = [b \in Batches |-> 0]

\* what a database round trip can do: succeed, or fail with a connectivity error
CommitOutcomes == IF faults < MaxFaults THEN {"ok", "commit_fault"} ELSE {"ok"}

\* db.commit() followed by db.refresh(): the refresh is a round trip of its own
CommitRefreshOutcomes == IF faults < MaxFaults THEN {"ok", "commit_fault", "refresh_fault"} ELSE {"ok"}

\* variant: the session object is written by every commit
FlushedWithSession(b, obj, added) == {<<"UploadSession", b>>} \cup added

\* the objects the transaction of a db.commit() writes: those just added, and the session object obj
\* when it has a stored row and differs from it
Flushed(b, obj, added) == (IF db_sessions[b] # NoSession /\ obj # db_sessions[b] THEN {<<"UploadSession", b>>} ELSE {}) \cup added

\* _process_row on every row of the catalogue, computed once
process_row_table == [row \in RowCatalogue \cup RowExamples |-> [headers \in HeaderMaps |-> [bound \in BOOLEAN |-> process_row(row, headers, bound)]]]

\* the campaign data _process_row can return
ParsedCampaigns == {process_row_table[row][AllFields][TRUE].data : row \in {r \in RowCatalogue \cup RowExamples : process_row_table[r][AllFields][TRUE].kind = "ok"}}

\* Campaign(**campaign_data) on every campaign data, computed once
CampaignInit_table == [campaign_data \in ParsedCampaigns |-> CampaignInit(campaign_data)]

\* the event loop runs one request at a time; a request gives it up only at "await file.read()"
\* (line 290) and when it ends
Holds(b) == running \in {"none", b}

\* lines 264-275: the file is refused before anything is stored
RejectFile(b) ==
    /\ pc[b] = "start"
    /\ Holds(b)
    /\ running' = "none"
    /\ \E code \in {400, 413} : response' = [response EXCEPT ![b] = [NoResponse EXCEPT !.code = code, !.kind = "rejected"]]
    /\ pc' = [pc EXCEPT ![b] = "done"]
    /\ UNCHANGED <<call, has_parse_runtime, counter_lock, error_counter, thread, exceptions, db_campaigns, db_sessions, faults, file, upload_session, row_number, campaigns, errors, summary, next_campaign, campaign_ids, persistence_errors, raised, txlog, clock>>

\* lines 277-287: the session is created, marked, added, committed and refreshed
CreateSession(b) ==
    /\ pc[b] = "start"
    /\ Holds(b)
    /\ clock' = [clock EXCEPT ![b] = @ + 1]
    /\ upload_session' = [upload_session EXCEPT ![b] = mark_processing_started(NewUploadSession, clock'[b])]
    /\ \E outcome \in CommitRefreshOutcomes :
          /\ faults' = IF outcome = "ok" THEN faults ELSE faults + 1
          /\ db_sessions' = IF outcome = "commit_fault" THEN db_sessions ELSE [db_sessions EXCEPT ![b] = upload_session'[b]]
          /\ txlog' = IF outcome = "commit_fault" THEN txlog ELSE [txlog EXCEPT ![b] = Append(@, Flushed(b, upload_session'[b], {<<"UploadSession", b>>}))]
          /\ pc' = [pc EXCEPT ![b] = IF outcome = "ok" THEN "load" ELSE "except"]
          /\ running' = IF outcome = "ok" THEN "none" ELSE b
    /\ UNCHANGED <<call, has_parse_runtime, counter_lock, error_counter, thread, exceptions, db_campaigns, file, row_number, campaigns, errors, summary, next_campaign, campaign_ids, persistence_errors, raised, response>>

\* lines 289-294 and 80-92, 128-133: the workbook is opened and its header row read
LoadWorkbook(b) ==
    /\ pc[b] = "load"
    /\ Holds(b)
    /\ running' = b
    /\ \E readable \in BOOLEAN :
          /\ pc' = [pc EXCEPT ![b] = IF readable THEN "rows" ELSE "except_http"]
          /\ raised' = [raised EXCEPT ![b] = IF readable THEN NoRaise ELSE [code |-> 400, detail |-> "XLSX file processing failed", x_processing_errors |-> NoneInt]]
    /\ row_number' = [row_number EXCEPT ![b] = 1]
    /\ campaigns' = [campaigns EXCEPT ![b] = <<>>]
    /\ errors' = [errors EXCEPT ![b] = <<>>]
    /\ UNCHANGED <<call, has_parse_runtime, counter_lock, error_counter, thread, exceptions, db_campaigns, db_sessions, faults, file, upload_session, summary, next_campaign, campaign_ids, persistence_errors, response, txlog, clock>>

\* lines 95-112: one turn of the loop over the data rows
ProcessRow(b) ==
    /\ pc[b] = "rows"
    /\ Holds(b)
    /\ running' = b
    /\ row_number[b] <= Len(file[b].rows)
    /\ row_number' = [row_number EXCEPT ![b] = @ + 1]
    /\ \E row \in {file[b].rows[row_number[b]]} : \E res \in {process_row_table[row][file[b].headers][has_parse_runtime]} :
          /\ campaigns' = [campaigns EXCEPT ![b] = IF res.kind = "ok" THEN Append(@, res.data) ELSE @]
          /\ \E caught \in {res.kind = "raise" /\ row_loop_catches(res.exc)} : \E escapes \in {res.kind = "raise" /\ ~row_loop_catches(res.exc)} :
                /\ errors' = [errors EXCEPT ![b] = IF caught THEN Append(@, [row |-> row_number'[b], exc |-> res.exc, error |-> res.msg, data |-> row_sample(row)]) ELSE @]
                /\ pc' = [pc EXCEPT ![b] = IF escapes THEN "except_http" ELSE @]
                /\ raised' = [raised EXCEPT ![b] = IF escapes THEN [code |-> 400, detail |-> "XLSX file processing failed", x_processing_errors |-> NoneInt] ELSE @]
    /\ UNCHANGED <<call, has_parse_runtime, counter_lock, error_counter, thread, exceptions, db_campaigns, db_sessions, faults, file, upload_session, summary, next_campaign, campaign_ids, persistence_errors, response, txlog, clock>>

\* variant: the failed count taken as what is left of the rows seen
make_summary_by_difference(rows_seen, successful, failed) ==
    [total_rows |-> rows_seen, successful_campaigns |-> successful, failed_campaigns |-> rows_seen - successful,
     success_rate |-> IF rows_seen > 0 THEN <<successful * 100, rows_seen>> ELSE <<0, 1>>]

\* lines 115-120: the processing statistics, success_rate as the fraction 100 * successful / total
make_summary(rows_seen, successful, failed) ==
    [total_rows |-> rows_seen, successful_campaigns |-> successful, failed_campaigns |-> failed,
     success_rate |-> IF rows_seen > 0 THEN <<successful * 100, rows_seen>> ELSE <<0, 1>>]

\* lines 114-126 and 296-298: the summary is drawn up and the persistence phase prepared
FinishProcessing(b) ==
    /\ pc[b] = "rows"
    /\ Holds(b)
    /\ running' = b
    /\ row_number[b] > Len(file[b].rows)
    /\ summary' = [summary EXCEPT ![b] = make_summary(row_number[b] - 1, Len(campaigns[b]), Len(errors[b]))]
    /\ campaign_ids' = [campaign_ids EXCEPT ![b] = <<>>]
    /\ persistence_errors' = [persistence_errors EXCEPT ![b] = <<>>]
    /\ next_campaign' = [next_campaign EXCEPT ![b] = 1]
    /\ pc' = [pc EXCEPT ![b] = "persist"]
    /\ UNCHANGED <<call, has_parse_runtime, counter_lock, error_counter, thread, exceptions, db_campaigns, db_sessions, faults, file, upload_session, row_number, campaigns, errors, raised, response, txlog, clock>>

\* the entry a failed create leaves in persistence_errors
persistence_error(campaign_data, error, details) == [campaign_id |-> campaign_data.id, error |-> error, details |-> details]

\* variant: a table without the primary key
no_primary_key(stored, campaign) == FALSE

\* the primary key of campaigns (models/campaign.py line 36): an INSERT of a stored id raises IntegrityError
violates_unique(stored, campaign) == \E r \in stored : r.id = campaign.id

\* variant: the except clauses raise again and the request leaves the loop
abort_on_persistence_error == "except"

\* where the request stands after either except clause of the loop: at the next campaign
after_persistence_error == "persist"

\* lines 300-331: one turn of the loop over the parsed campaigns
PersistCampaign(b) ==
    /\ pc[b] = "persist"
    /\ Holds(b)
    /\ running' = b
    /\ next_campaign[b] <= Len(campaigns[b])
    /\ next_campaign' = [next_campaign EXCEPT ![b] = @ + 1]
    /\ \E campaign_data \in {campaigns[b][next_campaign[b]]} : \E campaign \in {CampaignInit_table[campaign_data]} :
       \E duplicate \in {campaign.ok /\ violates_unique(db_campaigns, campaign.val)} : \E outcome \in CommitRefreshOutcomes :
          /\ ~campaign.ok => outcome = "ok"
          /\ campaign.ok /\ duplicate => outcome # "refresh_fault"
          /\ faults' = IF outcome = "ok" THEN faults ELSE faults + 1
          /\ \E inserted \in {campaign.ok /\ ~duplicate /\ outcome # "commit_fault"} : \E created \in {inserted /\ outcome = "ok"} :
                /\ db_campaigns' = IF inserted THEN db_campaigns \cup {campaign.val} ELSE db_campaigns
                /\ txlog' = IF inserted THEN [txlog EXCEPT ![b] = Append(@, Flushed(b, upload_session[b], {<<"Campaign", campaign.val.id>>}))] ELSE txlog
                /\ db_sessions' = IF inserted THEN [db_sessions EXCEPT ![b] = upload_session[b]] ELSE db_sessions
                /\ upload_session' = IF inserted THEN upload_session ELSE [upload_session EXCEPT ![b] = db_sessions[b]]
                /\ campaign_ids' = IF created THEN [campaign_ids EXCEPT ![b] = Append(@, campaign.val.id)] ELSE campaign_ids
                /\ persistence_errors' =
                      IF created THEN persistence_errors
                      ELSE IF ~campaign.ok THEN [persistence_errors EXCEPT ![b] = Append(@, persistence_error(campaign_data, <<"Database error">> \o campaign.msg, campaign.msg))]
                      ELSE IF outcome = "ok" THEN [persistence_errors EXCEPT ![b] = Append(@, persistence_error(campaign_data, <<"Duplicate campaign ID or constraint violation">>, <<"IntegrityError">>))]
                      ELSE [persistence_errors EXCEPT ![b] = Append(@, persistence_error(campaign_data, <<"Database error">>, <<"OperationalError">>))]
                /\ pc' = [pc EXCEPT ![b] = IF created THEN "persist" ELSE after_persistence_error]
    /\ UNCHANGED <<call, has_parse_runtime, counter_lock, error_counter, thread, exceptions, file, row_number, campaigns, errors, summary, raised, response, clock>>

\* lines 333-349: the session is marked completed with the counts and the errors, and committed
Finalize(b) ==
    /\ pc[b] = "persist"
    /\ Holds(b)
    /\ running' = b
    /\ next_campaign[b] > Len(campaigns[b])
    /\ clock' = [clock EXCEPT ![b] = @ + 1]
    /\ LET total_campaigns == Len(campaigns[b])
           successful_campaigns == Len(campaign_ids[b])
           failed_campaigns == Len(errors[b]) + Len(persistence_errors[b])
           all_errors == errors[b] \o persistence_errors[b]
           completed == mark_completed(upload_session[b], clock'[b], successful_campaigns, failed_campaigns, total_campaigns + failed_campaigns) IN
       \E obj \in {IF all_errors # <<>> THEN [completed EXCEPT !.validation_errors = JsonErrors(all_errors)] ELSE completed} :
       \E outcome \in CommitOutcomes :
          /\ faults' = IF outcome = "ok" THEN faults ELSE faults + 1
          /\ upload_session' = [upload_session EXCEPT ![b] = IF outcome = "ok" THEN obj ELSE db_sessions[b]]
          /\ db_sessions' = IF outcome = "ok" THEN [db_sessions EXCEPT ![b] = obj] ELSE db_sessions
          /\ txlog' = IF outcome = "ok" THEN [txlog EXCEPT ![b] = Append(@, Flushed(b, obj, {}))] ELSE txlog
          /\ pc' = [pc EXCEPT ![b] = IF outcome = "ok" THEN "respond" ELSE "except"]
    /\ UNCHANGED <<call, has_parse_runtime, counter_lock, error_counter, thread, exceptions, db_campaigns, file, row_number, campaigns, errors, summary, next_campaign, campaign_ids, persistence_errors, raised, response>>

\* all_errors[:10]
FirstTen(l) == SubSeq(l, 1, IF Len(l) < 10 THEN Len(l) ELSE 10)

\* variant: any failure makes the outcome partial
status_for_any_failure(successful_campaigns, failed_campaigns) ==
    IF failed_campaigns > 0 THEN "partial"
    ELSE IF successful_campaigns = 0 THEN "failure"
    ELSE "success"

\* lines 369-384: the outcome chosen from the two counts
status_for(successful_campaigns, failed_campaigns) ==
    IF failed_campaigns > 0 /\ successful_campaigns > 0 THEN "partial"
    ELSE IF successful_campaigns = 0 THEN "failure"
    ELSE "success"

\* lines 351-384: the response is drawn up and the status chosen
Respond(b) ==
    /\ pc[b] = "respond"
    /\ Holds(b)
    /\ LET successful_campaigns == Len(campaign_ids[b])
           failed_campaigns == Len(errors[b]) + Len(persistence_errors[b])
           all_errors == errors[b] \o persistence_errors[b]
           response_data == [code |-> 201, kind |-> "success", processed_count |-> successful_campaigns, failed_count |-> failed_campaigns,
                             campaign_ids |-> campaign_ids[b], errors |-> FirstTen(all_errors), total_errors |-> Len(all_errors)] IN
          IF status_for(successful_campaigns, failed_campaigns) = "partial"
          THEN /\ response' = [response EXCEPT ![b] = [response_data EXCEPT !.code = 207, !.kind = "partial"]]
               /\ pc' = [pc EXCEPT ![b] = "done"]
               /\ raised' = raised
               /\ running' = "none"
          ELSE IF status_for(successful_campaigns, failed_campaigns) = "failure"
          THEN /\ raised' = [raised EXCEPT ![b] = [code |-> 400, detail |-> "No campaigns could be processed successfully", x_processing_errors |-> Len(all_errors)]]
               /\ pc' = [pc EXCEPT ![b] = "except_http"]
               /\ response' = response
               /\ running' = b
          ELSE /\ response' = [response EXCEPT ![b] = response_data]
               /\ pc' = [pc EXCEPT ![b] = "done"]
               /\ raised' = raised
               /\ running' = "none"
    /\ UNCHANGED <<call, has_parse_runtime, counter_lock, error_counter, thread, exceptions, db_campaigns, db_sessions, faults, file, upload_session, row_number, campaigns, errors, summary, next_campaign, campaign_ids, persistence_errors, txlog, clock>>

\* the end of both handlers: db.commit(), then the exception leaves the request; a commit with
\* nothing to write makes no round trip, a failed one rolls the object back to its stored row
CommitAndRaise(b, obj, code, kind, header) ==
    \E writes \in {Flushed(b, obj, {})} : \E outcome \in (IF writes = {} THEN {"ok"} ELSE CommitOutcomes) :
       /\ faults' = IF outcome = "ok" THEN faults ELSE faults + 1
       /\ upload_session' = [upload_session EXCEPT ![b] = IF outcome = "ok" THEN obj ELSE db_sessions[b]]
       /\ db_sessions' = IF outcome = "ok" /\ writes # {} THEN [db_sessions EXCEPT ![b] = obj] ELSE db_sessions
       /\ txlog' = IF outcome = "ok" /\ writes # {} THEN [txlog EXCEPT ![b] = Append(@, writes)] ELSE txlog
       /\ response' = [response EXCEPT ![b] = IF outcome = "ok" THEN [NoResponse EXCEPT !.code = code, !.kind = kind, !.x_processing_errors = header]
                                                ELSE [NoResponse EXCEPT !.code = 500, !.kind = "unhandled"]]
       /\ pc' = [pc EXCEPT ![b] = "done"]

\* lines 386-390: an HTTPException raised inside the try block
HandleHTTPException(b) ==
    /\ pc[b] = "except_http"
    /\ Holds(b)
    /\ running' = "none"
    /\ clock' = [clock EXCEPT ![b] = @ + 1]
    /\ CommitAndRaise(b, mark_failed(upload_session[b], clock'[b], "HTTP validation error"), raised[b].code, "failure", raised[b].x_processing_errors)
    /\ UNCHANGED <<call, has_parse_runtime, counter_lock, error_counter, thread, exceptions, db_campaigns, file, row_number, campaigns, errors, summary, next_campaign, campaign_ids, persistence_errors, raised>>

\* lines 392-401: any other exception raised inside the try block
HandleException(b) ==
    /\ pc[b] = "except"
    /\ Holds(b)
    /\ running' = "none"
    /\ clock' = [clock EXCEPT ![b] = @ + 1]
    /\ CommitAndRaise(b, mark_failed(upload_session[b], clock'[b], "Processing error"), 500, "error", NoneInt)
    /\ UNCHANGED <<call, has_parse_runtime, counter_lock, error_counter, thread, exceptions, db_campaigns, file, row_number, campaigns, errors, summary, next_campaign, campaign_ids, persistence_errors, raised>>

Next == \E b \in Batches :
           \/ RejectFile(b)
           \/ CreateSession(b)
           \/ LoadWorkbook(b)
           \/ ProcessRow(b)
           \/ FinishProcessing(b)
           \/ PersistCampaign(b)
           \/ Finalize(b)
           \/ Respond(b)
           \/ HandleHTTPException(b)
           \/ HandleException(b)

Spec == Init /\ [][Next]_vars

\* a request, once it has the event loop, is run on; no request has to arrive
Continue(b) == LoadWorkbook(b) \/ ProcessRow(b) \/ FinishProcessing(b) \/ PersistCampaign(b) \/ Finalize(b) \/ Respond(b) \/ HandleHTTPException(b) \/ HandleException(b)

FairSpec == Spec /\ \A b \in Batches : WF_vars(Continue(b))

(***************************************************************************)
(* The services called on their own: CampaignClassifier.classify, which    *)
(* the pipeline constructs and never calls, the two converters of          *)
(* DataConverter, RuntimeParser.parse and its two helper methods on        *)
(* strings the worksheets of the pipeline do not carry, and the two        *)
(* constructors of a Campaign on the same arguments.                       *)
(***************************************************************************)
\* the longest string built from the alphabet of the converters
MaxLen == 4

CAMPAIGN_BUYER_VALUE == <<"N", "o", "t", " ", "s", "e", "t">>

\* variant: the buyer is trimmed before it is compared
classify_trimmed(buyer) ==
    IF buyer.none THEN Raise("ClassificationError", <<"Buyer field cannot be None">>)
    ELSE IF Strip(buyer.s) = CAMPAIGN_BUYER_VALUE THEN Ok("campaign")
    ELSE Ok("deal")

\* CampaignClassifier.classify on None or a string; the campaign_type of the result
classify(buyer) ==
    IF buyer.none THEN Raise("ClassificationError", <<"Buyer field cannot be None">>)
    ELSE IF buyer.s = CAMPAIGN_BUYER_VALUE THEN Ok("campaign")
    ELSE Ok("deal")

\* the buyers classify is called with: None, and the sentinel, case variants of it, another buyer
\* and the empty string, each with and without a blank on either side
BuyerInputs ==
    {NoneCell} \cup {Str(l \o core \o r) : l \in {<<>>, <<" ">>}, r \in {<<>>, <<" ">>},
                                             core \in {CAMPAIGN_BUYER_VALUE, <<"n", "o", "t", " ", "s", "e", "t">>, <<"N", "O", "T", " ", "S", "E", "T">>, TxtX, <<>>}}

\* the characters the numeric strings are built from
NumericChars == {"0", "1", ".", ",", " ", "-"}

\* the strings convert_european_decimal is called with
DecimalInputs == SeqsUpTo(NumericChars, MaxLen) \cup {TxtBudget, TxtCpm, <<"1", ".", "2", "3", "4", ".", "5", "6", "7", ",", "8">>, <<"1", ",", "5", ".", "0">>, <<"1", ",", "2", ",", "3">>}

\* the strings convert_impression_goal is called with
GoalInputs == SeqsUpTo(NumericChars, MaxLen) \cup {TxtGoal, TxtGoalThousands, <<"2", "0", "0", "0", "0", "0", "0", "0", "0", "0">>, <<"2", "0", "0", "0", "0", "0", "0", "0", "0", "1">>, <<"3", "0", "0", "0", "0", "0", "0", "0", "0", "0">>, <<" ", "5", "0", "0", " ">>}

Classify ==
    /\ call = NoCall
    /\ \E buyer \in BuyerInputs : call' = [op |-> "classify", arg |-> buyer, result |-> classify(buyer)]
    /\ UNCHANGED <<has_parse_runtime, counter_lock, error_counter, thread, exceptions, running, db_campaigns, db_sessions, faults, file, pc, upload_session, row_number, campaigns, errors, summary, next_campaign, campaign_ids, persistence_errors, raised, response, txlog, clock>>

ConvertEuropeanDecimal ==
    /\ call = NoCall
    /\ \E value_string \in DecimalInputs : call' = [op |-> "convert_european_decimal", arg |-> value_string, result |-> convert_european_decimal(value_string)]
    /\ UNCHANGED <<has_parse_runtime, counter_lock, error_counter, thread, exceptions, running, db_campaigns, db_sessions, faults, file, pc, upload_session, row_number, campaigns, errors, summary, next_campaign, campaign_ids, persistence_errors, raised, response, txlog, clock>>

ConvertImpressionGoal ==
    /\ call = NoCall
    /\ \E value_string \in GoalInputs : call' = [op |-> "convert_impression_goal", arg |-> value_string, result |-> convert_impression_goal(value_string)]
    /\ UNCHANGED <<has_parse_runtime, counter_lock, error_counter, thread, exceptions, running, db_campaigns, db_sessions, faults, file, pc, upload_session, row_number, campaigns, errors, summary, next_campaign, campaign_ids, persistence_errors, raised, response, txlog, clock>>

\* the dates the runtime strings are built from: calendar dates on either side of Today, the 29th
\* of February of a leap year and three that no calendar has
DateTexts ==
    {<<"3", "0", ".", "0", "6", ".", "2", "0", "2", "5">>,
     <<"0", "1", ".", "0", "7", ".", "2", "0", "2", "5">>,
     <<"0", "7", ".", "0", "7", ".", "2", "0", "2", "5">>,
     <<"2", "4", ".", "0", "7", ".", "2", "0", "2", "5">>,
     <<"2", "9", ".", "0", "2", ".", "2", "0", "2", "4">>,
     <<"3", "1", ".", "0", "2", ".", "2", "0", "2", "5">>,
     <<"0", "1", ".", "1", "3", ".", "2", "0", "2", "5">>,
     <<"0", "0", ".", "0", "1", ".", "2", "0", "2", "5">>}

\* the characters the short runtime strings are built from
RuntimeChars == {"A", "-", "1", ".", " "}

\* the strings RuntimeParser.parse is called with: the ASAP form and the range form over DateTexts,
\* bare and with a blank on either side, the near misses of the two forms, and every short string
RuntimeInputs ==
    {l \o <<"A", "S", "A", "P", "-">> \o d \o r : l \in {<<>>, <<" ">>}, r \in {<<>>, <<" ">>}, d \in DateTexts}
    \cup {l \o d1 \o <<"-">> \o d2 \o r : l \in {<<>>, <<" ">>}, r \in {<<>>, <<" ">>}, d1 \in DateTexts, d2 \in DateTexts}
    \cup {<<"a", "s", "a", "p", "-">> \o d : d \in DateTexts}
    \cup {<<"A", "S", "A", "P">> \o d : d \in DateTexts}
    \cup {<<"A", "S", "A", "P", " ", "-", " ">> \o d : d \in DateTexts}
    \cup {d1 \o <<" ", "-", " ">> \o d2 : d1 \in DateTexts, d2 \in DateTexts}
    \cup {d1 \o <<"-", "-">> \o d2 : d1 \in DateTexts, d2 \in DateTexts}
    \cup {d1 \o <<"-">> \o d2 \o <<"-">> \o d1 : d1 \in DateTexts, d2 \in DateTexts}
    \cup DateTexts
    \cup {<<"A", "S", "A", "P", "-", "1", ".", "7", ".", "2", "0", "2", "5">>, <<"A", "S", "A", "P", "-", "2", "0", "2", "5", "-", "0", "6", "-", "3", "0">>, <<"A", "S", "A", "P", "-", "3", "0", "/", "0", "6", "/", "2", "0", "2", "5">>}
    \cup SeqsUpTo(RuntimeChars, MaxLen)

\* RuntimeParser.parse(runtime_string, current_date) called on its own
Parse ==
    /\ call = NoCall
    /\ \E runtime_string \in RuntimeInputs : call' = [op |-> "parse", arg |-> runtime_string, result |-> parse(runtime_string, Today)]
    /\ UNCHANGED <<has_parse_runtime, counter_lock, error_counter, thread, exceptions, running, db_campaigns, db_sessions, faults, file, pc, upload_session, row_number, campaigns, errors, summary, next_campaign, campaign_ids, persistence_errors, raised, response, txlog, clock>>

\* the keyword arguments the two constructors are called with
CampaignInputs ==
    [id : {IdA, IdUpper, IdShort, <<" ">>},
     name : {TxtX, <<" ">>},
     runtime : {TxtAsap, TxtRange, <<" ">>,
                <<"0", "7", ".", "0", "7", ".", "2", "0", "2", "5", "-", "0", "7", ".", "0", "7", ".", "2", "0", "2", "5">>,
                <<"2", "4", ".", "0", "7", ".", "2", "0", "2", "5", "-", "0", "7", ".", "0", "7", ".", "2", "0", "2", "5">>,
                <<"1", ".", "7", ".", "2", "0", "2", "5", "-", "2", ".", "7", ".", "2", "0", "2", "5">>,
                <<"A", "S", "A", "P", "-", "3", "1", ".", "0", "2", ".", "2", "0", "2", "5">>},
     impression_goal : {0, 500, 2000000001},
     budget_eur : {[mant |-> 150075, scale |-> 2], [mant |-> -5, scale |-> 0]},
     cpm_eur : {[mant |-> 325, scale |-> 2], [mant |-> 0, scale |-> 0], [mant |-> -5, scale |-> 0]},
     buyer : {TxtNotSet, TxtX}]

\* Campaign(**kwargs) and refactored_init(Campaign.__new__(Campaign), **kwargs) on the same arguments
InitCampaign ==
    /\ call = NoCall
    /\ \E kwargs \in CampaignInputs : call' = [op |-> "Campaign", arg |-> kwargs, result |-> CampaignInit(kwargs), refactored |-> refactored_init(kwargs)]
    /\ UNCHANGED <<has_parse_runtime, counter_lock, error_counter, thread, exceptions, running, db_campaigns, db_sessions, faults, file, pc, upload_session, row_number, campaigns, errors, summary, next_campaign, campaign_ids, persistence_errors, raised, response, txlog, clock>>

\* RuntimeParser.is_campaign_completed(runtime_string, current_date) called on its own
IsCampaignCompleted ==
    /\ call = NoCall
    /\ \E runtime_string \in RuntimeInputs : call' = [op |-> "is_campaign_completed", arg |-> runtime_string, result |-> is_campaign_completed(runtime_string, Today)]
    /\ UNCHANGED <<has_parse_runtime, counter_lock, error_counter, thread, exceptions, running, db_campaigns, db_sessions, faults, file, pc, upload_session, row_number, campaigns, errors, summary, next_campaign, campaign_ids, persistence_errors, raised, response, txlog, clock>>

\* RuntimeParser.get_campaign_duration_days(runtime_string) called on its own
GetCampaignDurationDays ==
    /\ call = NoCall
    /\ \E runtime_string \in RuntimeInputs : call' = [op |-> "get_campaign_duration_days", arg |-> runtime_string, result |-> get_campaign_duration_days(runtime_string)]
    /\ UNCHANGED <<has_parse_runtime, counter_lock, error_counter, thread, exceptions, running, db_campaigns, db_sessions, faults, file, pc, upload_session, row_number, campaigns, errors, summary, next_campaign, campaign_ids, persistence_errors, raised, response, txlog, clock>>

\* the caller has taken the result
Return ==
    /\ call # NoCall
    /\ call' = NoCall
    /\ UNCHANGED <<has_parse_runtime, counter_lock, error_counter, thread, exceptions, running, db_campaigns, db_sessions, faults, file, pc, upload_session, row_number, campaigns, errors, summary, next_campaign, campaign_ids, persistence_errors, raised, response, txlog, clock>>

\* no request is being served while the services are called on their own
ServiceInit == Init /\ ~has_parse_runtime /\ \A b \in Batches : file[b] = [headers |-> AllFields, rows |-> <<>>]

ServiceNext == Classify \/ ConvertEuropeanDecimal \/ ConvertImpressionGoal \/ Parse \/ IsCampaignCompleted \/ GetCampaignDurationDays \/ InitCampaign \/ Return

ServiceSpec == ServiceInit /\ [][ServiceNext]_vars

(***************************************************************************)
(* Error codes (app/exceptions.py): PPVBaseException.__init__ without an   *)
(* error_code calls _generate_error_code of the class, which takes the     *)
(* lock shared by all classes, adds one to the counter of the class and    *)
(* formats the code.  "x += 1" on a class attribute is a load and a store; *)
(* a thread can be preempted between any two steps.                        *)
(***************************************************************************)
\* the exceptions one thread constructs
MaxExceptions == 2

\* the literal at the front of the f-string of each _generate_error_code
CodePrefix(cls) ==
    CASE cls = "PPVBaseException" -> <<"P", "P", "V", "_", "B", "A", "S", "E", "_">>
      [] cls = "DataValidationError" -> <<"P", "P", "V", "_", "D", "A", "T", "A", "_">>
      [] cls = "RuntimeParsingError" -> <<"P", "P", "V", "_", "R", "U", "N", "T", "I", "M", "E", "_">>
      [] cls = "BusinessRuleError" -> <<"P", "P", "V", "_", "B", "U", "S", "I", "N", "E", "S", "S", "_">>

\* the decimal digits of n
RECURSIVE DigitsOf(_)
DigitsOf(n) == IF n < 10 THEN <<DigitChars[n + 1]>> ELSE Append(DigitsOf(n \div 10), DigitChars[(n % 10) + 1])

\* the format specification ":03d": at least three digits, zeros in front
Format03d(n) == [i \in 1..(3 - Len(DigitsOf(n))) |-> "0"] \o DigitsOf(n)

\* variant: the counter is changed without the lock
enter_unlocked(lock, t) == TRUE

\* "with PPVBaseException._counter_lock": a thread enters when no thread holds the lock
enter_counter_lock(lock, t) == lock = "none"

\* PPVBaseException.__init__(message) of class cls, up to the call of self._generate_error_code()
Construct(t) ==
    /\ thread[t].at = "idle"
    /\ Len(exceptions[t]) < MaxExceptions
    /\ \E cls \in PPVExceptions : thread' = [thread EXCEPT ![t] = [IdleThread EXCEPT !.at = "acquire", !.cls = cls]]
    /\ UNCHANGED <<call, has_parse_runtime, counter_lock, error_counter, exceptions, running, db_campaigns, db_sessions, faults, file, pc, upload_session, row_number, campaigns, errors, summary, next_campaign, campaign_ids, persistence_errors, raised, response, txlog, clock>>

AcquireLock(t) ==
    /\ thread[t].at = "acquire"
    /\ enter_counter_lock(counter_lock, t)
    /\ counter_lock' = t
    /\ thread' = [thread EXCEPT ![t].at = "load"]
    /\ UNCHANGED <<call, has_parse_runtime, error_counter, exceptions, running, db_campaigns, db_sessions, faults, file, pc, upload_session, row_number, campaigns, errors, summary, next_campaign, campaign_ids, persistence_errors, raised, response, txlog, clock>>

\* the load of "counter += 1"
LoadCounter(t) ==
    /\ thread[t].at = "load"
    /\ thread' = [thread EXCEPT ![t].at = "store", ![t].loaded = error_counter[thread[t].cls]]
    /\ UNCHANGED <<call, has_parse_runtime, counter_lock, error_counter, exceptions, running, db_campaigns, db_sessions, faults, file, pc, upload_session, row_number, campaigns, errors, summary, next_campaign, campaign_ids, persistence_errors, raised, response, txlog, clock>>

\* the store of "counter += 1"
StoreCounter(t) ==
    /\ thread[t].at = "store"
    /\ error_counter' = [error_counter EXCEPT ![thread[t].cls] = thread[t].loaded + 1]
    /\ thread' = [thread EXCEPT ![t].at = "format"]
    /\ UNCHANGED <<call, has_parse_runtime, counter_lock, exceptions, running, db_campaigns, db_sessions, faults, file, pc, upload_session, row_number, campaigns, errors, summary, next_campaign, campaign_ids, persistence_errors, raised, response, txlog, clock>>

\* the f-string of the return statement reads the counter again, still inside the with block
FormatCode(t) ==
    /\ thread[t].at = "format"
    /\ thread' = [thread EXCEPT ![t].at = "release", ![t].code = CodePrefix(thread[t].cls) \o Format03d(error_counter[thread[t].cls])]
    /\ UNCHANGED <<call, has_parse_runtime, counter_lock, error_counter, exceptions, running, db_campaigns, db_sessions, faults, file, pc, upload_session, row_number, campaigns, errors, summary, next_campaign, campaign_ids, persistence_errors, raised, response, txlog, clock>>

\* the with block is left, the code is assigned to self.error_code and the constructor returns
ReleaseLock(t) ==
    /\ thread[t].at = "release"
    /\ counter_lock' = "none"
    /\ exceptions' = [exceptions EXCEPT ![t] = Append(@, [type |-> thread[t].cls, error_code |-> thread[t].code])]
    /\ thread' = [thread EXCEPT ![t] = IdleThread]
    /\ UNCHANGED <<call, has_parse_runtime, error_counter, running, db_campaigns, db_sessions, faults, file, pc, upload_session, row_number, campaigns, errors, summary, next_campaign, campaign_ids, persistence_errors, raised, response, txlog, clock>>

ExceptionNext == \E t \in Threads : Construct(t) \/ AcquireLock(t) \/ LoadCounter(t) \/ StoreCounter(t) \/ FormatCode(t) \/ ReleaseLock(t)

\* exceptions are constructed while no request is served and no service is called
ExceptionSpec == ServiceInit /\ [][ExceptionNext]_vars

(***************************************************************************)
(* Properties                                                              *)
(***************************************************************************)
Terminal == {"completed", "failed"}

DuplicateMessage == <<"Duplicate campaign ID or constraint violation">>

\* a turn of the persistence loop of batch b
PersistStep(b) == pc[b] = "persist" /\ next_campaign'[b] = next_campaign[b] + 1

\* a turn of the persistence loop that ends in one of its except clauses
FailedCreate(b) == PersistStep(b) /\ Len(persistence_errors'[b]) = Len(persistence_errors[b]) + 1

\* the finalizing commit of batch b went through and the request ended with a response of its own
Reported(b) == pc[b] = "done" /\ db_sessions[b].total_rows_processed # NoneInt /\ response[b].kind # "unhandled"

AllErrors(b) == errors[b] \o persistence_errors[b]

\* C1: a failed create of one parsed entity leaves every stored entity, the stored session and the
\* ids created so far as they were, and the loop goes on with the next parsed entity; a parsed
\* entity that is valid and whose id is not stored is committed when the storage answers,
\* whatever failed before it.
C1_FailedCreateIsIsolated ==
    [][\A b \in Batches :
          /\ FailedCreate(b) => /\ db_campaigns \subseteq db_campaigns'
                                /\ db_sessions' = db_sessions
                                /\ campaign_ids'[b] = campaign_ids[b]
                                /\ pc'[b] = "persist"
          /\ PersistStep(b) => LET c == CampaignInit_table[campaigns[b][next_campaign[b]]] IN
                                  (c.ok /\ ~violates_unique(db_campaigns, c.val) /\ faults' = faults)
                                     => (db_campaigns' = db_campaigns \cup {c.val} /\ campaign_ids'[b] = Append(campaign_ids[b], c.val.id))]_vars

\* the first parsed entity of a batch failed and the second one was created and is stored
C1_Witness ==
    \E b \in Batches : /\ Len(campaigns[b]) = 2
                       /\ Len(persistence_errors[b]) = 1
                       /\ persistence_errors[b][1].campaign_id = campaigns[b][1].id
                       /\ Len(campaign_ids[b]) = 1
                       /\ \E r \in db_campaigns : r.id = campaign_ids[b][1] /\ r.id = campaigns[b][2].id

C3_FinalizedOnce ==
    [][\A b \in Batches : db_sessions[b].status \in Terminal => db_sessions'[b] = db_sessions[b]]_vars

\* a create of batch b ended in a connectivity failure of the storage
ConnectivityFailure(b) == \E i \in 1..Len(persistence_errors[b]) : persistence_errors[b][i].details = <<"OperationalError">>

\* C4: after a connectivity failure in the persistence phase the request has left the loop for the
\* handler of unexpected errors, and it ends with status 500 and the session stored as failed.
C4_ConnectivityFailureIsFatal ==
    \A b \in Batches : ConnectivityFailure(b) =>
        /\ pc[b] \in {"except", "done"}
        /\ pc[b] = "done" => (response[b].code = 500 /\ (db_sessions[b].status = "failed" \/ response[b].kind = "unhandled"))

\* batch c uploads again the worksheet of batch b, which has ended in complete success
Rerun(b, c) == b # c /\ file[c] = file[b] /\ pc[b] = "done" /\ response[b].kind = "success"

\* C5: when a batch uploads again the worksheet of a batch that ended in complete success, no
\* step changes the stored entities, the second batch creates nothing, and while the storage
\* answers each of its creates ends in the uniqueness conflict, one per entity and reported with
\* the id the row supplied for it, and the batch in failure.
C5_RerunIsIdempotent ==
    /\ [](\A b, c \in Batches : Rerun(b, c) =>
             /\ campaign_ids[c] = <<>>
             /\ Cardinality(db_campaigns) = Len(campaign_ids[b])
             /\ \A r \in db_campaigns : \E i \in 1..Len(campaign_ids[b]) : campaign_ids[b][i] = r.id
             /\ faults = 0 => /\ \A i \in 1..Len(persistence_errors[c]) :
                                    /\ persistence_errors[c][i].error = DuplicateMessage
                                    /\ validate_uuid(persistence_errors[c][i].campaign_id) = Ok(campaign_ids[b][i])
                              /\ pc[c] \in {"respond", "except_http", "done"} /\ summary[c] # NoSummary
                                    => Len(persistence_errors[c]) = Len(campaign_ids[b])
                              /\ pc[c] = "done" /\ summary[c] # NoSummary => response[c].kind = "failure")
    /\ [][(\E b, c \in Batches : Rerun(b, c)) => db_campaigns' = db_campaigns]_vars

\* the second upload of a worksheet of two entities has ended, both creates refused
C5_Witness ==
    \E b, c \in Batches : /\ Rerun(b, c)
                          /\ faults = 0
                          /\ pc[c] = "done"
                          /\ Len(campaign_ids[b]) = 2
                          /\ Len(persistence_errors[c]) = 2
                          /\ Cardinality(db_campaigns) = 2

\* the worksheet of batch b is two well-formed rows with the same id
SameIdTwice(b) ==
    /\ file[b].headers = AllFields
    /\ Len(file[b].rows) = 2
    /\ file[b].rows[1] \in {RowGoodA, RowGoodB}
    /\ file[b].rows[2] = file[b].rows[1]

\* C6: a batch of two well-formed rows with the same id, run alone on a storage that answers,
\* ends in partial success: the first row created, the second one refused with the uniqueness
\* conflict and reported with its id, created count 1 and failed count 1.
C6_SecondOfTwoIsRefused ==
    \A b \in Batches :
        (/\ SameIdTwice(b)
         /\ pc[b] = "done"
         /\ summary[b] # NoSummary
         /\ faults = 0
         /\ \A c \in Batches \ {b} : pc[c] = "start")
        => /\ response[b].kind = "partial"
           /\ response[b].processed_count = 1
           /\ response[b].failed_count = 1
           /\ Len(response[b].errors) = 1
           /\ response[b].errors[1].error = DuplicateMessage
           /\ response[b].errors[1].campaign_id = Strip(file[b].rows[2].id.s)
           /\ \E r \in db_campaigns : r.id = response[b].campaign_ids[1]

\* C7: every committed transaction of a batch wrote either the UploadSession of the batch and
\* nothing else, or exactly one Campaign and nothing else.
C7_OneWritePerTransaction ==
    \A b \in Batches : \A i \in 1..Len(txlog[b]) :
        \/ txlog[b][i] = {<<"UploadSession", b>>}
        \/ Cardinality(txlog[b][i]) = 1 /\ \A w \in txlog[b][i] : w[1] = "Campaign"

\* a batch has committed its session, an entity and its session again, and one create failed
C7_Witness ==
    \E b \in Batches : /\ Len(txlog[b]) >= 3
                       /\ \E i \in 1..Len(txlog[b]) : \E w \in txlog[b][i] : w[1] = "Campaign"
                       /\ persistence_errors[b] # <<>>
                       /\ db_sessions[b].status \in Terminal

FaultyRow(row, headers) ==
    \/ row \in {RowMissingBuyer, RowGoalDotted, RowGoalZero}
    \/ row # RowBlank /\ headers # AllFields

\* a turn of the row loop of batch b
RowStep(b) == pc[b] = "rows" /\ row_number'[b] = row_number[b] + 1

\* C9: the turn of the row loop on a row with a missing field, a format error or a business-rule
\* error adds one entry with the number of the row to errors, adds no campaign, raises nothing
\* and stays in the loop.
C9_RowErrorsAreCaught ==
    [][\A b \in Batches :
          (RowStep(b) /\ FaultyRow(file[b].rows[row_number[b]], file[b].headers)) =>
              /\ pc'[b] = "rows"
              /\ raised'[b] = raised[b]
              /\ campaigns'[b] = campaigns[b]
              /\ Len(errors'[b]) = Len(errors[b]) + 1
              /\ SubSeq(errors'[b], 1, Len(errors[b])) = errors[b]
              /\ errors'[b][Len(errors'[b])].row = row_number[b] + 1]_vars

\* the rows of a batch were processed to the end, a missing field and a conversion error among them
C9_Witness ==
    \E b \in Batches : /\ pc[b] = "persist"
                       /\ \E i \in 1..Len(errors[b]) : errors[b][i].exc = "ValueError"
                       /\ \E i \in 1..Len(errors[b]) : errors[b][i].exc \in {"DataValidationError", "BusinessRuleError"}

NonBlank(row) == \E f \in AllFields : Truthy(row[f])

\* the j-th smallest element of the set S of numbers
Nth(S, j) == CHOOSE i \in S : Cardinality({k \in S : k <= i}) = j

\* C10: of the rows processed so far, each non-blank one is either the row of exactly one entry
\* of errors or, in worksheet order, the source of exactly one entry of campaigns, and the blank
\* ones of neither; once the summary is drawn up every row has been processed and its two
\* counts are the lengths of the two lists.
C10_EachRowOnce ==
    \A b \in Batches :
        LET rows == file[b].rows
            seen == {i \in 1..(row_number[b] - 1) : NonBlank(rows[i])}
            failed == {errors[b][k].row - 1 : k \in 1..Len(errors[b])}
            passed == seen \ failed IN
        /\ failed \subseteq seen
        /\ Cardinality(failed) = Len(errors[b])
        /\ \A k \in 1..(Len(errors[b]) - 1) : errors[b][k].row < errors[b][k + 1].row
        /\ Len(campaigns[b]) = Cardinality(passed)
        /\ \A j \in 1..Len(campaigns[b]) : campaigns[b][j].id = Strip(rows[Nth(passed, j)].id.s)
        /\ summary[b] # NoSummary => /\ row_number[b] - 1 = Len(rows)
                                     /\ summary[b].total_rows = Len(rows)
                                     /\ summary[b].successful_campaigns = Len(campaigns[b])
                                     /\ summary[b].failed_campaigns = Len(errors[b])

\* the first row of a batch failed, the second one was processed, and the summary is drawn up
C10_Witness ==
    \E b \in Batches : /\ summary[b] # NoSummary
                       /\ row_number[b] = 3
                       /\ errors[b] # <<>>
                       /\ errors[b][1].row = 2
                       /\ Len(campaigns[b]) + Len(errors[b]) = 2

\* the entities of batch b that a committed transaction of the batch wrote
WrittenBy(b) == {w[2] : w \in {x \in UNION {txlog[b][i] : i \in 1..Len(txlog[b])} : x[1] = "Campaign"}}

\* C11: a batch that ends in complete failure returns the list of its row errors and no created
\* identifier, and none of its transactions stored a Campaign.
C11_FailureReturnsErrors ==
    \A b \in Batches :
        (Reported(b) /\ response[b].kind = "failure") =>
            /\ response[b].errors = FirstTen(AllErrors(b))
            /\ response[b].campaign_ids = <<>>
            /\ WrittenBy(b) = {}

\* C12: whenever a row of a batch is parsed or a parsed entity of it is persisted, the first
\* transaction the batch committed wrote its UploadSession, and the stored session has status
\* processing and a processing-start timestamp.
C12_SessionStoredBeforeRows ==
    [][\A b \in Batches :
          (RowStep(b) \/ PersistStep(b)) =>
              /\ txlog[b] # <<>>
              /\ txlog[b][1] = {<<"UploadSession", b>>}
              /\ db_sessions[b].status = "processing"
              /\ db_sessions[b].processing_started_at # NoneInt
              /\ db_sessions[b].processing_completed_at = NoneInt]_vars

\* a batch has parsed a row into an error and another into an entity that it has stored, its session
\* stored before them
C12_Witness ==
    \E b \in Batches : /\ errors[b] # <<>>
                       /\ campaign_ids[b] # <<>>
                       /\ Len(txlog[b]) >= 2
                       /\ txlog[b][1] = {<<"UploadSession", b>>}
                       /\ db_sessions[b].processing_started_at = 1

\* C13: once the counts of a batch are stored in its UploadSession, the total is the number of data
\* rows of the worksheet, the success count the number of entities the batch committed, and the
\* failure count the number of rows that failed in parsing plus the number that failed in persistence.
C13_CountsReflectBatch ==
    \A b \in Batches :
        db_sessions[b].total_rows_processed # NoneInt =>
            /\ db_sessions[b].total_rows_processed = Len(file[b].rows)
            /\ db_sessions[b].successful_campaigns = Cardinality(WrittenBy(b))
            /\ db_sessions[b].failed_campaigns = Len(errors[b]) + Len(persistence_errors[b])

\* C14: when a batch has been finalized and has given its result, the validation_errors stored in
\* its UploadSession is the serialized list of all its row errors, of the parsing phase and of the
\* persistence phase (nothing, or the empty list, when there are none).
C14_StoredErrorsAreAllErrors ==
    \A b \in Batches :
        Reported(b) =>
            IF AllErrors(b) = <<>>
            THEN db_sessions[b].validation_errors \in {NullErrors, JsonErrors(<<>>)}
            ELSE db_sessions[b].validation_errors = JsonErrors(AllErrors(b))

\* the worksheet row (the header is row 1) the j-th parsed entity of batch b was read from
SourceRow(b, j) ==
    LET failed == {errors[b][k].row - 1 : k \in 1..Len(errors[b])}
        passed == {i \in 1..(row_number[b] - 1) : NonBlank(file[b].rows[i])} \ failed IN
    Nth(passed, j) + 1

\* C15: an error is never reported after an error of a later row: an entry the row loop appends is
\* for a later row than every error before it, and so is the entry a failed create appends to the
\* errors of the batch, which are reported as the parsing errors followed by the persistence errors.
C15_ErrorsOrderedByRow ==
    [][\A b \in Batches :
          /\ (RowStep(b) /\ Len(errors'[b]) > Len(errors[b])) =>
                /\ persistence_errors[b] = <<>>
                /\ \A k \in 1..Len(errors[b]) : errors[b][k].row < errors'[b][Len(errors'[b])].row
          /\ FailedCreate(b) =>
                \A k \in 1..Len(errors[b]) : errors[b][k].row < SourceRow(b, next_campaign[b])]_vars

\* the required fields a row lacks: no column of the header row is mapped to them, or the cell is empty
Lacking(row, headers) == {f \in AllFields : f \notin headers \/ row[f].none}

\* the names listed in the message of a missing-field error
ListedFields(error) == {error[i] : i \in 2..Len(error)}

\* C16: the turn of the row loop on a non-blank row that lacks a required field adds one entry to
\* errors, with the number of the row and a message that lists exactly the fields the row lacks,
\* and adds no entity.
C16_MissingFieldsAreListed ==
    [][\A b \in Batches :
          LET row == file[b].rows[row_number[b]] IN
          (RowStep(b) /\ NonBlank(row) /\ Lacking(row, file[b].headers) # {}) =>
              /\ campaigns'[b] = campaigns[b]
              /\ Len(errors'[b]) = Len(errors[b]) + 1
              /\ LET entry == errors'[b][Len(errors'[b])] IN
                    /\ entry.row = row_number[b] + 1
                    /\ entry.error[1] = "Missing required fields"
                    /\ ListedFields(entry.error) = Lacking(row, file[b].headers)
                    /\ Len(entry.error) = 1 + Cardinality(Lacking(row, file[b].headers))]_vars

\* the header row of a batch has no buyer column and both of its rows have failed for it
C16_Witness ==
    \E b \in Batches : /\ "buyer" \notin file[b].headers
                       /\ Len(errors[b]) = 2
                       /\ campaigns[b] = <<>>
                       /\ \A k \in 1..2 : errors[b][k].error = <<"Missing required fields", "buyer">>

\* C17: the worksheet with the single row of the end-to-end scenario, uploaded alone on a storage
\* that answers, ends in success with exactly one created entity, stored with impression goal
\* 500000, budget 1500.75, cost 3.25, entity type campaign, no start and the end 31.12.2025.
C17_ScenarioCreatesOneEntity ==
    \A b \in Batches :
        (/\ file[b].rows = <<RowScenario>>
         /\ pc[b] = "done"
         /\ summary[b] # NoSummary
         /\ faults = 0
         /\ \A c \in Batches \ {b} : pc[c] = "start")
        => /\ response[b].kind = "success"
           /\ Len(campaign_ids[b]) = 1
           /\ Cardinality(db_campaigns) = 1
           /\ \A r \in db_campaigns :
                 /\ r.id = campaign_ids[b][1]
                 /\ r.impression_goal = 500000
                 /\ FloatEq(r.budget_eur, [mant |-> 150075, scale |-> 2])
                 /\ FloatEq(r.cpm_eur, [mant |-> 325, scale |-> 2])
                 /\ entity_type(r.buyer) = "campaign"
                 /\ r.runtime_start = NoDate
                 /\ r.runtime_end = <<2025, 12, 31>>

\* C18 as stated: classify fails for no input, and answers "campaign" exactly for the string
\* "Not set" and "deal" for every other input, None included.
C18_ClassifyNeverFails ==
    call.op = "classify" =>
        /\ call.result.ok
        /\ call.result.val \in {"campaign", "deal"}
        /\ call.result.val = "campaign" <=> call.arg = Str(<<"N", "o", "t", " ", "s", "e", "t">>)

\* C18: classify answers "campaign" exactly for the string "Not set" and "deal" for every other
\* string, case variants and the sentinel with blanks around it included; for None it raises
\* ClassificationError.
C18_ClassifyExactMatch ==
    call.op = "classify" =>
        IF call.arg.none
        THEN ~call.result.ok /\ call.result.exc = "ClassificationError"
        ELSE /\ call.result.ok
             /\ call.result.val \in {"campaign", "deal"}
             /\ call.result.val = "campaign" <=> call.arg.s = <<"N", "o", "t", " ", "s", "e", "t">>

\* classify has answered "deal" for the sentinel with a blank on either side
C18_Witness ==
    /\ call.op = "classify"
    /\ call.arg = Str(<<" ", "N", "o", "t", " ", "s", "e", "t", " ">>)
    /\ call.result = Ok("deal")

\* the result is a format error
FormatError(result) == ~result.ok /\ result.exc = "DataValidationError"

\* the result is the decimal literal text read as a number, or a format error when text is none
ReadsAs(result, text) ==
    IF IsFloatLiteral(text) THEN result.ok /\ FloatEq(result.val, FloatOf(text)) ELSE FormatError(result)

\* the result is c read with its one comma as the decimal separator and its dots as thousands
\* separators: digits only after the comma, the dots before it dropped
ReadsWithCommaDecimal(result, c) ==
    LET before == SubSeq(c, 1, FirstIndex(c, ",") - 1)
        after == SubSeq(c, FirstIndex(c, ",") + 1, Len(c)) IN
    IF IsDigitStr(after) THEN ReadsAs(result, Remove(before, ".") \o <<".">> \o after) ELSE FormatError(result)

DigitsOnly(s) == s # <<>> /\ \A i \in 1..Len(s) : s[i] \in {"0", "1", "2", "3", "4", "5", "6", "7", "8", "9"}

\* the result convert_impression_goal owes to the digit-only string digits: its value when it lies
\* in [1, 2000000000], a business-rule error otherwise
GoalOfDigits(result, digits) ==
    IF IntOfDigits(digits) >= 1 /\ IntOfDigits(digits) <= 2000000000
    THEN result = Ok(IntOfDigits(digits))
    ELSE ~result.ok /\ result.exc = "BusinessRuleError" /\ result.exc # "DataValidationError"

\* C20 as stated: a digit-only string gives its value when that lies in [1, 2000000000] and a
\* business-rule error otherwise; every string that is not digits only gives a data-validation error.
C20_NonDigitStringsFail ==
    call.op = "convert_impression_goal" =>
        IF DigitsOnly(call.arg) THEN GoalOfDigits(call.result, call.arg) ELSE FormatError(call.result)

\* C20: a string that is digits only once the blanks around it are trimmed gives the value of the
\* digits when that lies in [1, 2000000000] and a business-rule error otherwise ("0" and
\* "3000000000" among them); every other string gives a data-validation error.
C20_GoalOfTrimmedDigits ==
    call.op = "convert_impression_goal" =>
        /\ IF DigitsOnly(Strip(call.arg)) THEN GoalOfDigits(call.result, Strip(call.arg)) ELSE FormatError(call.result)
        /\ call.arg \in {<<"0">>, <<"3", "0", "0", "0", "0", "0", "0", "0", "0", "0">>} => (~call.result.ok /\ call.result.exc = "BusinessRuleError")
        /\ call.arg = <<"2", "0", "0", "0", "0", "0", "0", "0", "0", "0">> => call.result = Ok(2000000000)

\* "3000000000" has been refused with a business-rule error
C20_Witness ==
    /\ call.op = "convert_impression_goal"
    /\ call.arg = <<"3", "0", "0", "0", "0", "0", "0", "0", "0", "0">>
    /\ ~call.result.ok
    /\ call.result.exc = "BusinessRuleError"

\* the calendar date a text of DateTexts writes, and whether there is one
DateOfText(d) == DateFieldsAt(d, 1)

IsCalendarDate(d) == ValidDate(DateOfText(d)[1], DateOfText(d)[2], DateOfText(d)[3])

NamesBothPatterns(result) ==
    /\ ~result.ok
    /\ result.exc = "RuntimeParsingError"
    /\ \E i \in DOMAIN result.msg : result.msg[i] = "ASAP-DD.MM.YYYY"
    /\ \E i \in DOMAIN result.msg : result.msg[i] = "DD.MM.YYYY-DD.MM.YYYY"

\* what parse owes to a string s of one of the two forms whose dates are calendar dates
ReadsTwoForms(result, s) ==
    /\ (ASAP_PATTERN(s) /\ create_date(DateFieldsAt(s, 6)).ok) =>
           result.ok /\ result.val.start_date = NoDate /\ result.val.end_date = DateFieldsAt(s, 6)
    /\ (STANDARD_PATTERN(s) /\ create_date(DateFieldsAt(s, 1)).ok /\ create_date(DateFieldsAt(s, 12)).ok /\ DateLess(DateFieldsAt(s, 1), DateFieldsAt(s, 12))) =>
           result.ok /\ result.val.start_date = DateFieldsAt(s, 1) /\ result.val.end_date = DateFieldsAt(s, 12)
    /\ result.ok => (ASAP_PATTERN(s) \/ STANDARD_PATTERN(s))

\* C22 as stated: the ASAP form yields no start and the date as end, the range form yields its two
\* dates, and a string of any other shape fails with a runtime-format error naming both patterns.
C22_OtherShapesNamePatterns ==
    call.op = "parse" =>
        /\ ReadsTwoForms(call.result, Strip(call.arg))
        /\ (~ASAP_PATTERN(Strip(call.arg)) /\ ~STANDARD_PATTERN(Strip(call.arg))) => NamesBothPatterns(call.result)

\* C22: parse trims the string and then accepts exactly two forms: "ASAP-" followed by one date
\* yields no start and that date as end, two dates separated by one hyphen yield start and end;
\* an empty or blank string fails with the runtime-format error "Runtime string cannot be empty",
\* which names no pattern, and every other shape fails with a runtime-format error naming both
\* accepted patterns.
C22_TwoFormsAfterTrimming ==
    call.op = "parse" =>
        /\ ReadsTwoForms(call.result, Strip(call.arg))
        /\ Strip(call.arg) = <<>> => (~call.result.ok /\ call.result.exc = "RuntimeParsingError" /\ call.result.msg = <<"Runtime string cannot be empty">>)
        /\ (Strip(call.arg) # <<>> /\ ~ASAP_PATTERN(Strip(call.arg)) /\ ~STANDARD_PATTERN(Strip(call.arg))) => NamesBothPatterns(call.result)
        /\ call.arg = <<"A", "S", "A", "P", "-", "3", "0", ".", "0", "6", ".", "2", "0", "2", "5">> => (call.result.ok /\ call.result.val.start_date = NoDate /\ call.result.val.end_date = <<2025, 6, 30>>)

\* "ASAP30.06.2025", which lacks the hyphen, has been refused with an error naming both patterns
C22_Witness ==
    /\ call.op = "parse"
    /\ call.arg = <<"A", "S", "A", "P", "3", "0", ".", "0", "6", ".", "2", "0", "2", "5">>
    /\ NamesBothPatterns(call.result)

\* C23: every stored Campaign has an impression goal in [1, 2000000000], a positive budget and a
\* positive unit cost; a row that violates one of these creates no entity.
C23_StoredValuesAreValid ==
    \A r \in db_campaigns :
        /\ r.impression_goal >= 1
        /\ r.impression_goal <= 2000000000
        /\ r.budget_eur.mant > 0
        /\ r.cpm_eur.mant > 0

\* C24: the id of a stored entity is, character for character, the id some row of an uploaded
\* worksheet supplied, so a lookup by the supplied string finds the entity.
C24_IdStoredAsSupplied ==
    \A r \in db_campaigns :
        \E b \in Batches : \E i \in 1..Len(file[b].rows) :
            ~file[b].rows[i].id.none /\ file[b].rows[i].id.s = r.id

\* every exception constructed so far, with the thread that constructed it and its position there
Constructed == {<<t, i>> : t \in Threads, i \in 1..MaxExceptions} \cap {x \in Threads \X (1..MaxExceptions) : x[2] <= Len(exceptions[x[1]])}

\* C25: no two exceptions, of one thread or of several, carry the same generated error code, and
\* each code starts with the prefix of its class (PPV_DATA_, PPV_RUNTIME_, PPV_BUSINESS_).
C25_GeneratedCodesAreUnique ==
    /\ \A x \in Constructed, y \in Constructed :
           x # y => exceptions[x[1]][x[2]].error_code # exceptions[y[1]][y[2]].error_code
    /\ \A x \in Constructed :
           /\ exceptions[x[1]][x[2]].type = "DataValidationError" => StartsWith(exceptions[x[1]][x[2]].error_code, <<"P", "P", "V", "_", "D", "A", "T", "A", "_">>)
           /\ exceptions[x[1]][x[2]].type = "RuntimeParsingError" => StartsWith(exceptions[x[1]][x[2]].error_code, <<"P", "P", "V", "_", "R", "U", "N", "T", "I", "M", "E", "_">>)
           /\ exceptions[x[1]][x[2]].type = "BusinessRuleError" => StartsWith(exceptions[x[1]][x[2]].error_code, <<"P", "P", "V", "_", "B", "U", "S", "I", "N", "E", "S", "S", "_">>)

\* both threads have constructed a DataValidationError first, one of them with the code
\* PPV_DATA_002, and a thread is waiting for the lock again
C25_Witness ==
    /\ \A t \in Threads : Len(exceptions[t]) >= 1 /\ exceptions[t][1].type = "DataValidationError"
    /\ \E t \in Threads : exceptions[t][1].error_code = <<"P", "P", "V", "_", "D", "A", "T", "A", "_", "0", "0", "2">>
    /\ \E t \in Threads : thread[t].at = "acquire"

\* a row whose seven cells are all well-formed, under a header row that names all seven columns
WellFormed(row, headers) == headers = AllFields /\ row \in {RowGoodA, RowGoodB}

\* C26: the turn of the row loop on a non-blank row whose seven fields are all well-formed adds the
\* row to campaigns and nothing to errors, and the persistence phase creates it when its id is not
\* stored yet and the storage answers.
C26_WellFormedRowIsParsed ==
    [][\A b \in Batches :
          /\ (RowStep(b) /\ WellFormed(file[b].rows[row_number[b]], file[b].headers)) =>
                /\ errors'[b] = errors[b]
                /\ Len(campaigns'[b]) = Len(campaigns[b]) + 1
                /\ campaigns'[b][Len(campaigns'[b])].id = file[b].rows[row_number[b]].id.s
          /\ (/\ PersistStep(b)
              /\ WellFormed(file[b].rows[SourceRow(b, next_campaign[b]) - 1], file[b].headers)
              /\ \A r \in db_campaigns : r.id # campaigns[b][next_campaign[b]].id
              /\ faults' = faults) =>
                \E r \in db_campaigns' : r.id = campaigns[b][next_campaign[b]].id]_vars

\* batch b has created the entity with this id
CreatedBy(b, id) == \E k \in 1..Len(campaign_ids[b]) : campaign_ids[b][k] = id

\* batch b has recorded the uniqueness conflict for this id
RefusedAsDuplicate(b, id) ==
    \E k \in 1..Len(persistence_errors[b]) :
        persistence_errors[b][k].campaign_id = id /\ persistence_errors[b][k].error = DuplicateMessage

\* C27: when two batches whose worksheets carry a well-formed row with the same id have both run
\* to the end on a storage that answers, exactly one of them has created the entity and the other
\* has recorded the uniqueness conflict for it, and the rows rejected in the parsing phase are
\* the same in both.
C27_ExactlyOneBatchCreates ==
    \A b \in Batches, c \in Batches :
        (/\ b # c
         /\ pc[b] = "done" /\ summary[b] # NoSummary
         /\ pc[c] = "done" /\ summary[c] # NoSummary
         /\ faults = 0)
        => /\ \A i \in 1..Len(file[b].rows) :
                 (/\ WellFormed(file[b].rows[i], file[b].headers)
                  /\ \A j \in 1..Len(file[b].rows) : file[b].rows[j].id = file[b].rows[i].id => j = i
                  /\ \E j \in 1..Len(file[c].rows) : file[c].rows[j].id = file[b].rows[i].id)
                 => /\ CreatedBy(b, file[b].rows[i].id.s) # CreatedBy(c, file[b].rows[i].id.s)
                    /\ ~CreatedBy(b, file[b].rows[i].id.s) => RefusedAsDuplicate(b, file[b].rows[i].id.s)
                    /\ ~CreatedBy(c, file[b].rows[i].id.s) => RefusedAsDuplicate(c, file[b].rows[i].id.s)
           /\ errors[b] = errors[c]

\* C28: the entity type of every stored entity is classify applied to the raw buyer cell of a row
\* that supplied the entity; the cell " Not set " gives an entity of type "deal".
C28_EntityTypeOfRawCell ==
    \A r \in db_campaigns :
        \E b \in Batches : \E i \in 1..Len(file[b].rows) :
            /\ ~file[b].rows[i].id.none
            /\ ~file[b].rows[i].buyer.none
            /\ validate_uuid(Strip(file[b].rows[i].id.s)) = Ok(r.id)
            /\ classify(file[b].rows[i].buyer) = Ok(entity_type(r.buyer))

\* C29: on the same arguments Campaign.__init__ and refactored_init either both refuse, with the
\* same message, or both accept, with the same id, name, runtime start and end, impression goal,
\* budget, unit cost, buyer, entity type and running flag.
C29_ConstructorsAgree ==
    call.op = "Campaign" =>
        /\ call.result.ok = call.refactored.ok
        /\ ~call.result.ok => call.result.msg = call.refactored.msg
        /\ call.result.ok =>
              /\ \A f \in {"id", "name", "runtime_start", "runtime_end", "impression_goal", "budget_eur", "cpm_eur", "buyer", "is_running"} :
                    call.result.val[f] = call.refactored.val[f]
              /\ entity_type(call.result.val.buyer) = entity_type(call.refactored.val.buyer)

\* C30: is_campaign_completed and get_campaign_duration_days never raise for a string: on a runtime
\* that parse refuses (empty, unrecognised shape, impossible date, end not after start) the first
\* returns False and the second None.
C30_HelpersNeverRaise ==
    /\ call.op = "is_campaign_completed" =>
          /\ call.result.ok
          /\ ~parse(call.arg, Today).ok => call.result = Ok(FALSE)
    /\ call.op = "get_campaign_duration_days" =>
          /\ call.result.ok
          /\ ~parse(call.arg, Today).ok => call.result = Ok(NoneInt)

====
